---- MODULE Spec2Model ----
(***************************************************************************)
(* A model of the zen-data-explorer backend: the DuckDB engine's keyset    *)
(* pagination and cursor codec (engine.py), its dataset registry, the      *)
(* query lock and the data view of run_query, the SQL text the engine      *)
(* composes for pages, exports and table queries, the status codes of the  *)
(* HTTP endpoints (app.py), the upload, discover and import handlers, the  *)
(* profile of a column and the sparklines of a schema, and the code cells  *)
(* of code_runner.py.                                                      *)
(*                                                                         *)
(* Text is a sequence of one-character strings.  Python and JSON values    *)
(* are records [t, i, s, l]: t is the type tag, i the integer (or 0/1 for  *)
(* a bool), s the text of a str, l the items of a list or the <<key,       *)
(* value>> pairs of an object.  A float is kept in tenths in i; a date of   *)
(* a table is its ISO text in s.  A Python dict is a function from keys    *)
(* (texts) to values.                                                      *)
(***************************************************************************)
EXTENDS Integers, Sequences, FiniteSets, TLC

\* ------------------------------------------------------------------------
\* Characters and bytes
\* ------------------------------------------------------------------------

\* The printable ASCII characters, code 32 first (code 96, the grave accent,
\* is a placeholder: the lexer does not read it inside a string).
Ascii ==
 << " ", "!", "\"", "#", "$", "%", "&", "'", "(", ")", "*", "+", ",", "-",
    ".", "/", "0", "1", "2", "3", "4", "5", "6", "7", "8", "9", ":", ";",
    "<", "=", ">", "?", "@", "A", "B", "C", "D", "E", "F", "G", "H", "I",
    "J", "K", "L", "M", "N", "O", "P", "Q", "R", "S", "T", "U", "V", "W",
    "X", "Y", "Z", "[", "\\", "]", "^", "_", "GRAVE", "a", "b", "c", "d", "e",
    "f", "g", "h", "i", "j", "k", "l", "m", "n", "o", "p", "q", "r", "s",
    "t", "u", "v", "w", "x", "y", "z", "{", "|", "}", "~" >>

\* The code of each character, tabulated once.
OrdTable == [c \in {Ascii[i] : i \in 1..Len(Ascii)} |->
                31 + (CHOOSE i \in 1..Len(Ascii) : Ascii[i] = c)]

\* Line feed and carriage return have the codes 10 and 13.
Ord(c) == IF c = "\n" THEN 10 ELSE IF c = "\r" THEN 13 ELSE OrdTable[c]

Chr(n) == Ascii[n - 31]

IsPrintable(n) == n >= 32 /\ n <= 126

\* The URL-safe base64 alphabet, sextet 0 first.
B64Alphabet ==
 << "A", "B", "C", "D", "E", "F", "G", "H", "I", "J", "K", "L", "M", "N",
    "O", "P", "Q", "R", "S", "T", "U", "V", "W", "X", "Y", "Z", "a", "b",
    "c", "d", "e", "f", "g", "h", "i", "j", "k", "l", "m", "n", "o", "p",
    "q", "r", "s", "t", "u", "v", "w", "x", "y", "z", "0", "1", "2", "3",
    "4", "5", "6", "7", "8", "9", "-", "_" >>

Digits == << "0", "1", "2", "3", "4", "5", "6", "7", "8", "9" >>

IsDigit(c) == c \in {"0", "1", "2", "3", "4", "5", "6", "7", "8", "9"}

DigitVal(c) == Ord(c) - 48

\* ------------------------------------------------------------------------
\* Python values
\* ------------------------------------------------------------------------

NoneV == [t |-> "none", i |-> 0, s |-> << >>, l |-> << >>]

IntV(n) == [t |-> "int", i |-> n, s |-> << >>, l |-> << >>]

BoolV(b) == [t |-> "bool", i |-> IF b THEN 1 ELSE 0, s |-> << >>, l |-> << >>]

StrV(cs) == [t |-> "str", i |-> 0, s |-> cs, l |-> << >>]

\* A float with one decimal, kept in tenths: FloatV(15) is 1.5.
FloatV(tenths) == [t |-> "float", i |-> tenths, s |-> << >>, l |-> << >>]

\* A DATE cell of a table, by its ISO text.
DateV(iso) == [t |-> "date", i |-> 0, s |-> iso, l |-> << >>]

ListV(items) == [t |-> "list", i |-> 0, s |-> << >>, l |-> items]

\* A dict as a value: its <<key, value>> pairs in insertion order.
DictV(pairs) == [t |-> "dict", i |-> 0, s |-> << >>, l |-> pairs]

IsNumber(v) == v.t \in {"int", "bool", "float"}

\* A number in tenths.
Tenths(v) == IF v.t = "float" THEN v.i ELSE 10 * v.i

\* Python's ==: a bool is an int (True == 1), 1 == 1.0, other types equal
\* only themselves.
PyEq(a, b) ==
    IF IsNumber(a) /\ IsNumber(b) THEN Tenths(a) = Tenths(b)
    ELSE a.t = b.t /\ a = b

\* Python's truth value, bool(x).
Truthy(v) ==
    CASE v.t = "none" -> FALSE
      [] v.t \in {"int", "bool", "float"} -> v.i # 0
      [] v.t = "str" -> Len(v.s) > 0
      [] OTHER -> Len(v.l) > 0

RECURSIVE NatToText(_)
NatToText(n) ==
    IF n < 10 THEN << Digits[n + 1] >>
    ELSE NatToText(n \div 10) \o << Digits[(n % 10) + 1] >>

IntToText(n) == IF n < 0 THEN << "-" >> \o NatToText(-n) ELSE NatToText(n)

RECURSIVE TextToNat(_, _)
TextToNat(cs, acc) ==
    IF cs = << >> THEN acc
    ELSE TextToNat(Tail(cs), 10 * acc + DigitVal(Head(cs)))

AllDigits(cs) == Len(cs) > 0 /\ \A k \in 1..Len(cs) : IsDigit(cs[k])

RECURSIVE Strip(_)
Strip(cs) ==
    IF cs = << >> THEN cs
    ELSE IF Head(cs) = " " THEN Strip(Tail(cs))
    ELSE IF cs[Len(cs)] = " " THEN Strip(SubSeq(cs, 1, Len(cs) - 1))
    ELSE cs

\* A call's outcome: err is "" and val the value returned, or err is the
\* exception raised (ValueError, TypeError, duckdb.Error).
\* The message of an exception is head (the fixed text) followed by arg (the
\* text interpolated into it).
Ok(v) == [err |-> "", head |-> "", arg |-> << >>, val |-> v]

Raise(e) == [err |-> e, head |-> "", arg |-> << >>, val |-> NoneV]

RaiseMsg(e, head, arg) == [err |-> e, head |-> head, arg |-> arg, val |-> NoneV]

\* int(x): an int or bool as is, a float truncated toward zero, the text of
\* an integer parsed (surrounding blanks and a sign allowed), any other text
\* a ValueError, any other type a TypeError.
PyInt(v) ==
    CASE v.t \in {"int", "bool"} -> Ok(IntV(v.i))
      [] v.t = "float" -> Ok(IntV(IF v.i >= 0 THEN v.i \div 10 ELSE -((-v.i) \div 10)))
      [] v.t = "str" ->
            LET cs == Strip(v.s)
                neg == cs # << >> /\ Head(cs) = "-"
                body == IF cs # << >> /\ Head(cs) \in {"-", "+"} THEN Tail(cs) ELSE cs
            IN  IF AllDigits(body)
                THEN Ok(IntV(IF neg THEN -TextToNat(body, 0) ELSE TextToNat(body, 0)))
                ELSE Raise("ValueError")
      [] OTHER -> Raise("TypeError")

\* float(x) of a number or of the text of a decimal numeral with at most
\* one decimal (surrounding blanks and a sign allowed); any other text a
\* ValueError, any other type a TypeError.
PyFloat(v) ==
    CASE IsNumber(v) -> Ok(FloatV(Tenths(v)))
      [] v.t = "str" ->
            LET cs == Strip(v.s)
                neg == cs # << >> /\ Head(cs) = "-"
                body == IF cs # << >> /\ Head(cs) \in {"-", "+"} THEN Tail(cs) ELSE cs
                n == Len(body)
                whole == IF n >= 2 /\ body[n - 1] = "." THEN SubSeq(body, 1, n - 2) ELSE body
                tenth == IF n >= 2 /\ body[n - 1] = "." THEN << body[n] >> ELSE << "0" >>
                mag == 10 * TextToNat(whole, 0) + TextToNat(tenth, 0)
            IN  IF AllDigits(whole) /\ AllDigits(tenth)
                THEN Ok(FloatV(IF neg THEN -mag ELSE mag))
                ELSE Raise("ValueError")
      [] OTHER -> Raise("TypeError")

\* repr of a float with one decimal: 1.5, -0.5, 2.0.
FloatToText(tenths) ==
    (IF tenths < 0 THEN << "-" >> ELSE << >>)
        \o NatToText((IF tenths < 0 THEN -tenths ELSE tenths) \div 10)
        \o << "." >>
        \o NatToText((IF tenths < 0 THEN -tenths ELSE tenths) % 10)

\* str(x) of the values a filter or a cursor key can hold.
PyStr(v) ==
    CASE v.t \in {"str", "date"} -> v.s
      [] v.t = "int" -> IntToText(v.i)
      [] v.t = "float" -> FloatToText(v.i)
      [] v.t = "bool" -> IF v.i = 1 THEN << "T", "r", "u", "e" >>
                                    ELSE << "F", "a", "l", "s", "e" >>
      [] v.t = "none" -> << "N", "o", "n", "e" >>
      [] v.t = "list" -> IF v.l = << >> THEN << "[", "]" >> ELSE << "[", ".", "]" >>
      [] OTHER -> IF v.l = << >> THEN << "{", "}" >> ELSE << "{", ".", "}" >>

\* dict(pairs): a later pair of the same key replaces an earlier one.
RECURSIVE AsDict(_)
AsDict(pairs) ==
    IF pairs = << >> THEN << >>
    ELSE LET n == Len(pairs)
             rest == AsDict(SubSeq(pairs, 1, n - 1))
             keys == IF rest = << >> THEN {} ELSE DOMAIN rest
         IN  [key \in keys \cup {pairs[n][1]} |->
                 IF key = pairs[n][1] THEN pairs[n][2] ELSE rest[key]]

HasKey(d, key) == key \in DOMAIN d

\* d.get(key): None when the key is absent.
Get(d, key) == IF HasKey(d, key) THEN d[key] ELSE NoneV

\* ------------------------------------------------------------------------
\* json.dumps(payload, separators=(",", ":")) and json.loads
\* ------------------------------------------------------------------------

RECURSIVE JsonEscape(_)
JsonEscape(cs) ==
    IF cs = << >> THEN << >>
    ELSE (IF Head(cs) \in {"\"", "\\"} THEN << "\\", Head(cs) >> ELSE << Head(cs) >>)
         \o JsonEscape(Tail(cs))

JsonString(cs) == << "\"" >> \o JsonEscape(cs) \o << "\"" >>

RECURSIVE JsonDumps(_), JsonItems(_), JsonMembers(_)
JsonDumps(v) ==
    CASE v.t = "none" -> << "n", "u", "l", "l" >>
      [] v.t = "bool" -> IF v.i = 1 THEN << "t", "r", "u", "e" >>
                                    ELSE << "f", "a", "l", "s", "e" >>
      [] v.t = "int" -> IntToText(v.i)
      [] v.t = "float" -> FloatToText(v.i)
      [] v.t = "str" -> JsonString(v.s)
      [] v.t = "list" -> << "[" >> \o JsonItems(v.l) \o << "]" >>
      [] OTHER -> << "{" >> \o JsonMembers(v.l) \o << "}" >>

JsonItems(items) ==
    IF items = << >> THEN << >>
    ELSE JsonDumps(Head(items))
         \o (IF Len(items) > 1 THEN << "," >> ELSE << >>)
         \o JsonItems(Tail(items))

JsonMembers(pairs) ==
    IF pairs = << >> THEN << >>
    ELSE JsonString(Head(pairs)[1]) \o << ":" >> \o JsonDumps(Head(pairs)[2])
         \o (IF Len(pairs) > 1 THEN << "," >> ELSE << >>)
         \o JsonMembers(Tail(pairs))

\* A parse step's outcome: ok, the value read, the position after it.
Parsed(v, p) == [ok |-> TRUE, v |-> v, p |-> p]

NoParse == [ok |-> FALSE, v |-> NoneV, p |-> 0]

At(txt, p) == IF p >= 1 /\ p <= Len(txt) THEN txt[p] ELSE ""

StartsAt(txt, p, lit) ==
    p + Len(lit) - 1 <= Len(txt) /\ SubSeq(txt, p, p + Len(lit) - 1) = lit

RECURSIVE SkipWs(_, _)
SkipWs(txt, p) == IF At(txt, p) = " " THEN SkipWs(txt, p + 1) ELSE p

\* The body of a string, from the character after the opening quote.  The
\* escapes read are those JsonEscape writes, and \/.
RECURSIVE ScanString(_, _, _)
ScanString(txt, p, acc) ==
    LET c == At(txt, p) IN
    IF c = "" THEN NoParse
    ELSE IF c = "\"" THEN Parsed(StrV(acc), p + 1)
    ELSE IF c = "\\"
         THEN IF At(txt, p + 1) \in {"\"", "\\", "/"}
              THEN ScanString(txt, p + 2, Append(acc, At(txt, p + 1)))
              ELSE NoParse
    ELSE ScanString(txt, p + 1, Append(acc, c))

RECURSIVE DigitsEnd(_, _)
DigitsEnd(txt, p) == IF IsDigit(At(txt, p)) THEN DigitsEnd(txt, p + 1) ELSE p

\* An integer: -?(0|[1-9][0-9]*).  A fraction or exponent (a float) is not
\* among the texts of the model and is not read.
ScanNumber(txt, p) ==
    LET neg == At(txt, p) = "-"
        q == IF neg THEN p + 1 ELSE p
        e == IF At(txt, q) = "0" THEN q + 1 ELSE DigitsEnd(txt, q)
        n == TextToNat(SubSeq(txt, q, e - 1), 0)
    IN  IF e = q \/ At(txt, e) \in {".", "e", "E"} THEN NoParse
        ELSE Parsed(IntV(IF neg THEN -n ELSE n), e)

RECURSIVE ParseValue(_, _), ParseItems(_, _, _), ParseMembers(_, _, _)
ParseValue(txt, p0) ==
    LET p == SkipWs(txt, p0)
        c == At(txt, p)
    IN  CASE c = "\"" -> ScanString(txt, p + 1, << >>)
          [] c = "{" ->
                IF At(txt, SkipWs(txt, p + 1)) = "}"
                THEN Parsed(DictV(<< >>), SkipWs(txt, p + 1) + 1)
                ELSE ParseMembers(txt, p + 1, << >>)
          [] c = "[" ->
                IF At(txt, SkipWs(txt, p + 1)) = "]"
                THEN Parsed(ListV(<< >>), SkipWs(txt, p + 1) + 1)
                ELSE ParseItems(txt, p + 1, << >>)
          [] c = "-" \/ IsDigit(c) -> ScanNumber(txt, p)
          [] StartsAt(txt, p, << "n", "u", "l", "l" >>) -> Parsed(NoneV, p + 4)
          [] StartsAt(txt, p, << "t", "r", "u", "e" >>) -> Parsed(BoolV(TRUE), p + 4)
          [] StartsAt(txt, p, << "f", "a", "l", "s", "e" >>) -> Parsed(BoolV(FALSE), p + 5)
          [] OTHER -> NoParse

ParseItems(txt, p0, acc) ==
    LET item == ParseValue(txt, p0)
        q == SkipWs(txt, item.p)
    IN  IF ~item.ok THEN NoParse
        ELSE IF At(txt, q) = "," THEN ParseItems(txt, q + 1, Append(acc, item.v))
        ELSE IF At(txt, q) = "]" THEN Parsed(ListV(Append(acc, item.v)), q + 1)
        ELSE NoParse

ParseMembers(txt, p0, acc) ==
    LET p == SkipWs(txt, p0)
        key == IF At(txt, p) = "\"" THEN ScanString(txt, p + 1, << >>) ELSE NoParse
        colon == SkipWs(txt, key.p)
        val == IF key.ok /\ At(txt, colon) = ":" THEN ParseValue(txt, colon + 1) ELSE NoParse
        q == SkipWs(txt, val.p)
        all == Append(acc, << key.v.s, val.v >>)
    IN  IF ~val.ok THEN NoParse
        ELSE IF At(txt, q) = "," THEN ParseMembers(txt, q + 1, all)
        ELSE IF At(txt, q) = "}" THEN Parsed(DictV(all), q + 1)
        ELSE NoParse

\* json.loads(text): one value and nothing after it, else a ValueError
\* (json.JSONDecodeError is one).
JsonLoads(txt) ==
    LET r == ParseValue(txt, 1) IN
    IF r.ok /\ SkipWs(txt, r.p) = Len(txt) + 1 THEN Ok(r.v) ELSE Raise("ValueError")

\* ------------------------------------------------------------------------
\* base64.urlsafe_b64encode / urlsafe_b64decode
\* ------------------------------------------------------------------------

TextToBytes(cs) == [k \in 1..Len(cs) |-> Ord(cs[k])]

Sextet(n) == B64Alphabet[n + 1]

\* b64encode: each 3 bytes give 4 characters; a last group of 1 or 2 bytes
\* gives 2 or 3 characters and = up to 4.
ByteAt(bs, k) == IF k <= Len(bs) THEN bs[k] ELSE 0

B64Encode(bs) ==
    [j \in 1..(4 * ((Len(bs) + 2) \div 3)) |->
        LET g == 3 * ((j - 1) \div 4)
            b1 == ByteAt(bs, g + 1)
            b2 == ByteAt(bs, g + 2)
            b3 == ByteAt(bs, g + 3)
            q == (j - 1) % 4
        IN  CASE q = 0 -> Sextet(b1 \div 4)
              [] q = 1 -> Sextet((b1 % 4) * 16 + b2 \div 16)
              [] q = 2 -> IF g + 2 > Len(bs) THEN "="
                          ELSE Sextet((b2 % 16) * 4 + b3 \div 64)
              [] OTHER -> IF g + 3 > Len(bs) THEN "=" ELSE Sextet(b3 % 64)]

RECURSIVE RStripPad(_)
RStripPad(cs) ==
    IF cs # << >> /\ cs[Len(cs)] = "=" THEN RStripPad(SubSeq(cs, 1, Len(cs) - 1))
    ELSE cs

\* The sextet of a character, 64 for a character outside the alphabet
\* (urlsafe_b64decode maps - and _ to + and /, and reads + and / as well).
SextetTable ==
    [c \in DOMAIN OrdTable |->
        IF c = "+" THEN 62
        ELSE IF c = "/" THEN 63
        ELSE IF \E n \in 1..64 : B64Alphabet[n] = c
             THEN (CHOOSE n \in 1..64 : B64Alphabet[n] = c) - 1
        ELSE 64]

SextetOf(c) == SextetTable[c]

\* binascii.a2b_base64, not strict.  Characters outside the alphabet are
\* skipped.  An = met at position 2 or 3 of a quad counts as padding, and the
\* one that completes the quad ends the input; input that ends inside a quad
\* is an error.  The scan is stated position by position: DataBefore(p) are
\* the data characters read before p, PadsAt(p) the = read since the last of
\* them, up to and with p.
IsData(c) == SextetOf(c) < 64

DataBefore(cs, p) == SelectSeq(SubSeq(cs, 1, p - 1), IsData)

PadsAt(cs, p) ==
    Cardinality({q \in 1..p : cs[q] = "=" /\ \A m \in q..p : ~IsData(cs[m])})

PadEnds(cs, p) ==
    /\ cs[p] = "="
    /\ (Len(DataBefore(cs, p)) % 4) >= 2
    /\ (Len(DataBefore(cs, p)) % 4) + PadsAt(cs, p) >= 4

\* The bytes of a run of data characters; the bits of a last incomplete byte
\* are dropped.
SextetBytes(ds) ==
    [j \in 1..((Len(ds) * 6) \div 8) |->
        LET i == (8 * (j - 1)) \div 6 + 1
            o == (8 * (j - 1)) % 6
            hi == SextetOf(ds[i])
            lo == SextetOf(ds[i + 1])
        IN  CASE o = 0 -> hi * 4 + lo \div 16
              [] o = 2 -> (hi % 16) * 16 + lo \div 4
              [] OTHER -> (hi % 4) * 64 + lo]

B64Decode(cs) ==
    LET ends == {p \in 1..Len(cs) : PadEnds(cs, p)}
        stop == IF ends = {} THEN Len(cs) + 1
                ELSE CHOOSE p \in ends : \A q \in ends : p <= q
        ds == DataBefore(cs, stop)
    IN  IF ends = {} /\ (Len(ds) % 4) # 0
        THEN Raise("ValueError")
        ELSE Ok(SextetBytes(ds))

\* bytes.decode("utf-8"), for bytes in the printable ASCII range; any other
\* byte fails (the texts of the model hold none).
BytesToText(bs) ==
    IF \A k \in 1..Len(bs) : IsPrintable(bs[k])
    THEN Ok([k \in 1..Len(bs) |-> Chr(bs[k])])
    ELSE Raise("ValueError")

Pad(n) == [k \in 1..n |-> "="]

\* ------------------------------------------------------------------------
\* The cursor codec
\* ------------------------------------------------------------------------

\* payload: the <<key, value>> pairs of the dict, in insertion order.
MutEncodeCursorPadded(payload) == B64Encode(TextToBytes(JsonDumps(DictV(payload))))

_encode_cursor(payload) ==
    RStripPad(B64Encode(TextToBytes(JsonDumps(DictV(payload)))))

\* raise ValueError("Invalid cursor"), whatever failed inside the try.
InvalidCursor == RaiseMsg("ValueError", "Invalid cursor", << >>)

\* if not isinstance(payload, dict): raise ValueError(...), caught below.
CursorOfJson(js) ==
    IF js.err = "" /\ js.val.t = "dict" THEN Ok(AsDict(js.val.l)) ELSE InvalidCursor

\* payload = json.loads(raw.decode("utf-8"))
CursorOfText(txt) == IF txt.err = "" THEN CursorOfJson(JsonLoads(txt.val)) ELSE InvalidCursor

\* raw.decode("utf-8")
CursorOfBytes(raw) == IF raw.err = "" THEN CursorOfText(BytesToText(raw.val)) ELSE InvalidCursor

\* raw = base64.urlsafe_b64decode(token + "=" * (-len(token) % 4))
_decode_cursor(token) == CursorOfBytes(B64Decode(token \o Pad((-Len(token)) % 4)))

\* ------------------------------------------------------------------------
\* Tables of the embedded SQL engine
\* ------------------------------------------------------------------------
\* A table is [cols, rows]: cols the <<name, type>> pairs of PRAGMA
\* table_info, rows a set of [rowid, cells], cells a function from the column
\* names to values (NoneV is NULL).  rowid is the engine's row identity.

ColId == << "i", "d" >>

ColG == << "g" >>

AscText == << "A", "S", "C" >>

DescText == << "D", "E", "S", "C" >>

KeyV == << "v" >>

KeyS == << "s" >>

KeyD == << "d" >>

KeyR == << "r" >>

KeyN == << "n" >>

KeyK == << "k" >>

KeyColumn == << "c", "o", "l", "u", "m", "n" >>

KeyOperator == << "o", "p", "e", "r", "a", "t", "o", "r" >>

KeyValue == << "v", "a", "l", "u", "e" >>

OpEq == << "=" >>

OpNe == << "!", "=" >>

OpGt == << ">" >>

OpLt == << "<" >>

OpGe == << ">", "=" >>

OpLe == << "<", "=" >>

OpContains == << "c", "o", "n", "t", "a", "i", "n", "s" >>

OpStartsWith == << "s", "t", "a", "r", "t", "s", "_", "w", "i", "t", "h" >>

OpIsNull == << "i", "s", "_", "n", "u", "l", "l" >>

OpIsNotNull == << "i", "s", "_", "n", "o", "t", "_", "n", "u", "l", "l" >>

\* DUCKDB_TYPE_MAP.get(base, "string"), for type names without parameters.
map_duckdb_type(duck_type) ==
    CASE duck_type = "BOOLEAN" -> "boolean"
      [] duck_type \in {"BIGINT", "INTEGER", "SMALLINT", "TINYINT", "HUGEINT",
                        "UBIGINT", "UINTEGER", "USMALLINT", "UTINYINT"} -> "integer"
      [] duck_type \in {"DOUBLE", "FLOAT", "DECIMAL"} -> "float"
      [] duck_type \in {"DATE", "TIMESTAMP", "TIMESTAMP WITH TIME ZONE"} -> "date"
      [] OTHER -> "string"

FILTER_OPERATORS_BY_TYPE(app_type) ==
    CASE app_type = "string" ->
            {OpEq, OpNe, OpContains, OpStartsWith, OpIsNull, OpIsNotNull}
      [] app_type \in {"integer", "float"} ->
            {OpEq, OpNe, OpGt, OpLt, OpGe, OpLe, OpIsNull, OpIsNotNull}
      [] app_type = "date" -> {OpEq, OpGt, OpLt, OpGe, OpLe, OpIsNull, OpIsNotNull}
      [] app_type = "boolean" -> {OpEq, OpNe, OpIsNull, OpIsNotNull}
      [] OTHER -> {OpEq, OpNe, OpContains, OpStartsWith, OpIsNull, OpIsNotNull}

\* The column registry of a table: name -> [duck_type, app_type].
_get_column_meta(tbl) ==
    [name \in {tbl.cols[k][1] : k \in 1..Len(tbl.cols)} |->
        LET k == CHOOSE j \in 1..Len(tbl.cols) : tbl.cols[j][1] = name
        IN  [duck_type |-> tbl.cols[k][2], app_type |-> map_duckdb_type(tbl.cols[k][2])]]

\* Text order of VARCHAR values: byte by byte, a prefix first.
TextLess(a, b) ==
    \E k \in 1..(Len(b)) :
        /\ k <= Len(a) + 1
        /\ SubSeq(a, 1, k - 1) = SubSeq(b, 1, k - 1)
        /\ (k = Len(a) + 1 \/ Ord(a[k]) < Ord(b[k]))

\* a < b on two non-NULL values of one column type: texts and dates (by
\* their ISO text) byte by byte, numbers by value.
ValLess(a, b) ==
    IF a.t \in {"str", "date"} /\ b.t \in {"str", "date"} THEN TextLess(a.s, b.s)
    ELSE Tenths(a) < Tenths(b)

\* A comparison of SQL: with a NULL on either side it is NULL.  The WHERE
\* clauses of the engine combine comparisons with AND and OR only, where a
\* NULL selects what FALSE selects, so NULL is FALSE here.
SqlCmp(a, op, b) ==
    /\ a.t # "none"
    /\ b.t # "none"
    /\ CASE op = "=" -> ~ValLess(a, b) /\ ~ValLess(b, a)
         [] op = "!=" -> ValLess(a, b) \/ ValLess(b, a)
         [] op = ">" -> ValLess(b, a)
         [] op = "<" -> ValLess(a, b)
         [] op = ">=" -> ~ValLess(a, b)
         [] OTHER -> ~ValLess(b, a)

Lower(c) == IF Ord(c) >= 65 /\ Ord(c) <= 90 THEN Chr(Ord(c) + 32) ELSE c

\* text ILIKE pattern: % is any run of characters, _ any one character.
RECURSIVE ILike(_, _)
ILike(txt, pat) ==
    IF pat = << >> THEN txt = << >>
    ELSE IF Head(pat) = "%"
         THEN \E k \in 0..Len(txt) : ILike(SubSeq(txt, k + 1, Len(txt)), Tail(pat))
    ELSE /\ txt # << >>
         /\ (Head(pat) = "_" \/ Lower(Head(pat)) = Lower(Head(txt)))
         /\ ILike(Tail(txt), Tail(pat))

\* The number of ? of a clause.
Placeholders(form) ==
    CASE form \in {"IS NULL", "IS NOT NULL"} -> 0
      [] form \in {"((c > ?) OR (c = ? AND rowid > ?) OR c IS NULL)",
                   "((c < ?) OR (c = ? AND rowid < ?) OR c IS NULL)"} -> 3
      [] OTHER -> 1

\* Whether a row satisfies a clause [col, form] under its bound parameters
\* ps.  In the forms, c stands for the quoted column.
ClauseHolds(row, clause, ps) ==
    LET form == clause.form
        c == IF form = "rowid > ?" THEN NoneV ELSE row.cells[clause.col]
    IN  CASE form = "IS NULL" -> c.t = "none"
          [] form = "IS NOT NULL" -> c.t # "none"
          [] form = "= ?" -> SqlCmp(c, "=", ps[1])
          [] form = "!= ?" -> SqlCmp(c, "!=", ps[1])
          [] form = "> ?" -> SqlCmp(c, ">", ps[1])
          [] form = "< ?" -> SqlCmp(c, "<", ps[1])
          [] form = ">= ?" -> SqlCmp(c, ">=", ps[1])
          [] form = "<= ?" -> SqlCmp(c, "<=", ps[1])
          [] form = "ILIKE ?" -> c.t = "str" /\ ps[1].t = "str" /\ ILike(c.s, ps[1].s)
          [] form = "rowid > ?" -> SqlCmp(IntV(row.rowid), ">", ps[1])
          [] form = "(c IS NULL AND rowid > ?)" ->
                c.t = "none" /\ SqlCmp(IntV(row.rowid), ">", ps[1])
          [] form = "(c IS NULL AND rowid < ?)" ->
                c.t = "none" /\ SqlCmp(IntV(row.rowid), "<", ps[1])
          [] form = "((c > ?) OR (c = ? AND rowid > ?) OR c IS NULL)" ->
                \/ SqlCmp(c, ">", ps[1])
                \/ SqlCmp(c, "=", ps[2]) /\ SqlCmp(IntV(row.rowid), ">", ps[3])
                \/ c.t = "none"
          [] OTHER ->
                \/ SqlCmp(c, "<", ps[1])
                \/ SqlCmp(c, "=", ps[2]) /\ SqlCmp(IntV(row.rowid), "<", ps[3])
                \/ c.t = "none"

\* The parameters of the k-th clause: the ? are bound in order.
RECURSIVE ParamsBefore(_, _)
ParamsBefore(clauses, k) ==
    IF k <= 1 THEN 0
    ELSE ParamsBefore(clauses, k - 1) + Placeholders(clauses[k - 1].form)

ClauseParams(clauses, params, k) ==
    SubSeq(params, ParamsBefore(clauses, k) + 1,
           ParamsBefore(clauses, k) + Placeholders(clauses[k].form))

\* WHERE c1 AND c2 ... over the rows of a table.
Where(tbl, clauses, params) ==
    {row \in tbl.rows :
        \A k \in 1..Len(clauses) :
            ClauseHolds(row, clauses[k], ClauseParams(clauses, params, k))}

\* ORDER BY col dir NULLS LAST, rowid dir; ORDER BY rowid ASC without col.
Before(r1, r2, col, dir) ==
    IF col = << >> THEN r1.rowid < r2.rowid
    ELSE LET a == r1.cells[col]
             b == r2.cells[col]
             byId == IF dir = "ASC" THEN r1.rowid < r2.rowid ELSE r1.rowid > r2.rowid
         IN  IF a.t = "none" \/ b.t = "none"
             THEN (a.t # "none") \/ (b.t = "none" /\ byId)
             ELSE IF a = b THEN byId
             ELSE IF dir = "ASC" THEN ValLess(a, b) ELSE ValLess(b, a)

OrderBy(rows, col, dir) ==
    [k \in 1..Cardinality(rows) |->
        CHOOSE r \in rows : Cardinality({q \in rows : Before(q, r, col, dir)}) = k - 1]

Limit(rows, n) == SubSeq(rows, 1, IF n < Len(rows) THEN n ELSE Len(rows))

\* ------------------------------------------------------------------------
\* DuckDBEngine: registry, filters, cursors
\* ------------------------------------------------------------------------

\* table_name = f"ds_{dataset_id}"
TableName(dataset_id) == << "ds_", dataset_id >>

\* datasets: the registry, a function from dataset ids to table names.
_get_table(datasets, dataset_id) ==
    IF dataset_id \in DOMAIN datasets
    THEN Ok(datasets[dataset_id])
    ELSE RaiseMsg("ValueError", "Dataset not found: ", << >>)

TrueTexts == {<< "1" >>, << "t", "r", "u", "e" >>, << "t" >>, << "y", "e", "s" >>, << "y" >>}

FalseTexts == {<< "0" >>, << "f", "a", "l", "s", "e" >>, << "f" >>, << "n", "o" >>, << "n" >>}

RECURSIVE LowerText(_)
LowerText(cs) ==
    IF cs = << >> THEN << >> ELSE << Lower(Head(cs)) >> \o LowerText(Tail(cs))

\* The name of a semantic type as the text a message carries.
TypeText(app_type) ==
    CASE app_type = "integer" -> << "i", "n", "t", "e", "g", "e", "r" >>
      [] app_type = "float" -> << "f", "l", "o", "a", "t" >>
      [] app_type = "boolean" -> << "b", "o", "o", "l", "e", "a", "n" >>
      [] app_type = "date" -> << "d", "a", "t", "e" >>
      [] OTHER -> << "s", "t", "r", "i", "n", "g" >>

\* date.fromisoformat(text) succeeds: YYYY-MM-DD with a month of the
\* calendar and a day that month has.
IsIsoDate(cs) ==
    /\ Len(cs) = 10
    /\ cs[5] = "-" /\ cs[8] = "-"
    /\ AllDigits(SubSeq(cs, 1, 4)) /\ AllDigits(SubSeq(cs, 6, 7)) /\ AllDigits(SubSeq(cs, 9, 10))
    /\ TextToNat(SubSeq(cs, 1, 4), 0) >= 1
    /\ TextToNat(SubSeq(cs, 6, 7), 0) \in 1..12
    /\ TextToNat(SubSeq(cs, 9, 10), 0) >= 1
    /\ TextToNat(SubSeq(cs, 9, 10), 0) <=
          (CASE TextToNat(SubSeq(cs, 6, 7), 0) \in {4, 6, 9, 11} -> 30
             [] TextToNat(SubSeq(cs, 6, 7), 0) = 2 ->
                   IF TextToNat(SubSeq(cs, 1, 4), 0) % 4 = 0
                      /\ (TextToNat(SubSeq(cs, 1, 4), 0) % 100 # 0
                          \/ TextToNat(SubSeq(cs, 1, 4), 0) % 400 = 0)
                   THEN 29 ELSE 28
             [] OTHER -> 31)

\* The text of the messages after the column: "': " and str(value).
ValueMessage(col, value) == col \o << "'", ":", " " >> \o PyStr(value)

\* The arg of an error is the text of its message after head.
_coerce_value(value, app_type, col, op) ==
    IF value.t = "none"
    THEN RaiseMsg("ValueError", "Filter value is required for column '",
                  col \o << "'", " ", "a", "n", "d", " ", "o", "p", "e", "r", "a", "t", "o", "r", " ", "'" >> \o op \o << "'" >>)
    ELSE CASE app_type = "integer" ->
                 IF PyInt(value).err = "" THEN PyInt(value)
                 ELSE RaiseMsg("ValueError", "Invalid integer value for column '",
                               ValueMessage(col, value))
           [] app_type = "float" ->
                 IF PyFloat(value).err = "" THEN PyFloat(value)
                 ELSE RaiseMsg("ValueError", "Invalid float value for column '",
                               ValueMessage(col, value))
           [] app_type = "boolean" ->
                 IF value.t = "bool" THEN Ok(value)
                 ELSE IF value.t = "str" /\ LowerText(Strip(value.s)) \in TrueTexts
                      THEN Ok(BoolV(TRUE))
                 ELSE IF value.t = "str" /\ LowerText(Strip(value.s)) \in FalseTexts
                      THEN Ok(BoolV(FALSE))
                 ELSE RaiseMsg("ValueError", "Invalid boolean value for column '",
                               ValueMessage(col, value))
           [] app_type = "date" ->
                 IF value.t = "str" /\ IsIsoDate(value.s) THEN Ok(StrV(value.s))
                 ELSE IF value.t = "str"
                      THEN RaiseMsg("ValueError", "Invalid date value for column '",
                                    ValueMessage(col, value) \o << ".", " ", "E", "x", "p", "e", "c", "t", "e", "d", " ", "Y", "Y", "Y", "Y", "-", "M", "M", "-", "D", "D", "." >>)
                 ELSE RaiseMsg("ValueError", "Invalid date value for column '",
                               ValueMessage(col, value))
           [] OTHER -> Ok(StrV(PyStr(value)))

\* The outcome's val is [clause, params]: the clause [col, form] and its
\* bound parameters.
Clause(col, form, params) == Ok([clause |-> [col |-> col, form |-> form], params |-> params])

\* The clause of an operator that compares with the coerced value.
ValueClause(col, op, value) ==
    IF value.err # "" THEN value
    ELSE CASE op = OpEq -> Clause(col, "= ?", << value.val >>)
           [] op = OpNe -> Clause(col, "!= ?", << value.val >>)
           [] op = OpGt -> Clause(col, "> ?", << value.val >>)
           [] op = OpLt -> Clause(col, "< ?", << value.val >>)
           [] op = OpGe -> Clause(col, ">= ?", << value.val >>)
           [] op = OpLe -> Clause(col, "<= ?", << value.val >>)
           [] op = OpContains ->
                 Clause(col, "ILIKE ?", << StrV(<< "%" >> \o value.val.s \o << "%" >>) >>)
           [] op = OpStartsWith ->
                 Clause(col, "ILIKE ?", << StrV(value.val.s \o << "%" >>) >>)
           [] OTHER -> RaiseMsg("ValueError", "Unsupported operator '", op \o << "'" >>)

_build_filter_clause(f, col_meta) ==
    LET colv == Get(f, KeyColumn)
        opv == Get(f, KeyOperator)
        col == colv.s
        op == opv.s
        app_type == col_meta[col].app_type
    IN  IF colv.t # "str" \/ col = << >>
        THEN RaiseMsg("ValueError", "Filter column is required", << >>)
        ELSE IF col \notin DOMAIN col_meta
        THEN RaiseMsg("ValueError", "Invalid filter column: ", col)
        ELSE IF opv.t # "str" \/ op = << >>
        THEN RaiseMsg("ValueError", "Filter operator is required for column: ", col)
        ELSE IF op \notin FILTER_OPERATORS_BY_TYPE(app_type)
        THEN RaiseMsg("ValueError", "Unsupported operator '",
                      op \o << "'", " ", "f", "o", "r", " ", "c", "o", "l", "u", "m", "n", " ", "'" >> \o col \o << "'", " ", "(" >> \o TypeText(app_type) \o << ")" >>)
        ELSE IF op = OpIsNull THEN Clause(col, "IS NULL", << >>)
        ELSE IF op = OpIsNotNull THEN Clause(col, "IS NOT NULL", << >>)
        ELSE ValueClause(col, op, _coerce_value(Get(f, KeyValue), app_type, col, op))

\* None, str, int, float and bool as they are, a date by its ISO text.
_serialize_cursor_value(value) == IF value.t = "date" THEN StrV(value.s) ELSE value

_deserialize_cursor_value(value, app_type) ==
    IF value.t = "none" THEN Ok(NoneV)
    ELSE CASE app_type = "integer" -> PyInt(value)
           [] app_type = "float" -> PyFloat(value)
           [] app_type = "boolean" ->
                 IF value.t = "bool" THEN Ok(value)
                 ELSE Ok(BoolV(LowerText(Strip(PyStr(value))) \in TrueTexts))
           [] OTHER -> Ok(StrV(PyStr(value)))

\* sort_column is NoneV or the StrV of a column name; sort_dir is "ASC" or
\* "DESC".  The outcome's val is [clause, params].
MutCursorAnySort(payload, sort_column) == TRUE

\* not (payload.get("s") != sort_column)
CursorSortMatches(payload, sort_column) == PyEq(Get(payload, KeyS), sort_column)

\* The keyset predicate after a non-null sort key.
KeysetAfterValue(anchor_rowid, anchor_value, col, sort_dir) ==
    IF anchor_value.err # "" THEN anchor_value
    ELSE IF sort_dir = "ASC"
    THEN Clause(col, "((c > ?) OR (c = ? AND rowid > ?) OR c IS NULL)",
                << anchor_value.val, anchor_value.val, anchor_rowid.val >>)
    ELSE Clause(col, "((c < ?) OR (c = ? AND rowid < ?) OR c IS NULL)",
                << anchor_value.val, anchor_value.val, anchor_rowid.val >>)

\* The predicate once anchor_rowid = int(payload["r"]) is known.
KeysetAfterRow(payload, anchor_rowid, sort_column, sort_dir, col_meta) ==
    IF anchor_rowid.err # "" THEN anchor_rowid
    ELSE IF ~Truthy(sort_column)
    THEN Clause(<< >>, "rowid > ?", << anchor_rowid.val >>)
    ELSE IF Truthy(Get(payload, KeyN))
    THEN Clause(sort_column.s, IF sort_dir = "ASC" THEN "(c IS NULL AND rowid > ?)"
                                                   ELSE "(c IS NULL AND rowid < ?)",
                << anchor_rowid.val >>)
    ELSE IF KeyK \notin DOMAIN payload
    THEN RaiseMsg("ValueError", "Cursor is missing sort key", << >>)
    ELSE KeysetAfterValue(anchor_rowid,
                          _deserialize_cursor_value(payload[KeyK],
                                                    col_meta[sort_column.s].app_type),
                          sort_column.s, sort_dir)

\* The checks of the payload's version, sort column, direction and anchor.
KeysetOfPayload(payload, sort_column, sort_dir, col_meta) ==
    IF ~PyEq(Get(payload, KeyV), IntV(1))
    THEN RaiseMsg("ValueError", "Invalid cursor version", << >>)
    ELSE IF ~CursorSortMatches(payload, sort_column)
    THEN RaiseMsg("ValueError", "Cursor does not match current sort column", << >>)
    ELSE IF ~PyEq(Get(payload, KeyD), StrV(IF sort_dir = "ASC" THEN AscText ELSE DescText))
    THEN RaiseMsg("ValueError", "Cursor does not match current sort direction", << >>)
    ELSE IF KeyR \notin DOMAIN payload
    THEN RaiseMsg("ValueError", "Cursor is missing row anchor", << >>)
    ELSE KeysetAfterRow(payload, PyInt(payload[KeyR]), sort_column, sort_dir, col_meta)

\* payload = self._decode_cursor(cursor), whose exception propagates.
KeysetOfDecoded(decoded, sort_column, sort_dir, col_meta) ==
    IF decoded.err # "" THEN decoded
    ELSE KeysetOfPayload(decoded.val, sort_column, sort_dir, col_meta)

_build_cursor_predicate(cursor, sort_column, sort_dir, col_meta) ==
    KeysetOfDecoded(_decode_cursor(cursor), sort_column, sort_dir, col_meta)

\* ------------------------------------------------------------------------
\* Bounds and the values of the model
\* ------------------------------------------------------------------------

MaxRows == 3

MaxPageSize == 2

\* The rows of an ingested file: column id is BIGINT, g VARCHAR.  The rows
\* give both columns NULLs and equal values.
Schema == << << ColId, "BIGINT" >>, << ColG, "VARCHAR" >> >>

Row(i, g) == [c \in {ColId, ColG} |-> IF c = ColId THEN i ELSE g]

Cells ==
    {Row(NoneV, StrV(<< "a" >>)), Row(IntV(1), StrV(<< "a" >>)),
     Row(IntV(1), NoneV), Row(IntV(2), StrV(<< "b" >>))}

DescWord == StrV(<< "d", "e", "s", "c" >>)

SortColumns == {NoneV, StrV(ColId), StrV(ColG)}

SortDirections == {StrV(<< "a", "s", "c" >>), DescWord}

\* ------------------------------------------------------------------------
\* DuckDBEngine.get_page
\* ------------------------------------------------------------------------

NoCursor == << >>

\* where_clauses.append(clause); params.extend(clause_params)
AddClause(before, last) ==
    IF before.err # "" THEN before
    ELSE IF last.err # "" THEN last
    ELSE Ok([clauses |-> Append(before.val.clauses, last.val.clause),
             params |-> before.val.params \o last.val.params])

\* The clauses and parameters of the filters in order, or the first error.
RECURSIVE CompileFilters(_, _)
CompileFilters(filters, col_meta) ==
    IF filters = << >> THEN Ok([clauses |-> << >>, params |-> << >>])
    ELSE AddClause(CompileFilters(SubSeq(filters, 1, Len(filters) - 1), col_meta),
                   _build_filter_clause(filters[Len(filters)], col_meta))

\* A failed call as a response.
Failed(e) ==
    [err |-> e.err, head |-> e.head, arg |-> e.arg, rows |-> << >>, rowids |-> << >>,
     totalRows |-> 0, filteredRows |-> 0, page |-> 0, pageSize |-> 0,
     totalPages |-> 0, nextCursor |-> NoCursor, prevCursor |-> NoCursor]

MutCursorFromFirstRow(page_rows) == page_rows[1]

\* last_row = page_rows[-1]
AnchorRow(page_rows) == page_rows[Len(page_rows)]

MutFetchPageSize(page_size) == page_size

\* LIMIT ? is bound to page_size + 1
FetchLimit(page_size) == page_size + 1

MutPayloadNullFlagFalse(last_row, sort_column, sort_dir) ==
    << << KeyV, IntV(1) >>,
       << KeyS, sort_column >>,
       << KeyD, StrV(IF sort_dir = "ASC" THEN AscText ELSE DescText) >>,
       << KeyR, IntV(last_row.rowid) >> >>
    \o (IF Truthy(sort_column)
        THEN << << KeyN, BoolV(FALSE) >>,
                << KeyK, last_row.cells[sort_column.s] >> >>
        ELSE << >>)

\* The cursor payload of a page, as the pairs of the dict in insertion order.
CursorPayload(last_row, sort_column, sort_dir) ==
    << << KeyV, IntV(1) >>,
       << KeyS, sort_column >>,
       << KeyD, StrV(IF sort_dir = "ASC" THEN AscText ELSE DescText) >>,
       << KeyR, IntV(last_row.rowid) >> >>
    \o (IF Truthy(sort_column)
        THEN << << KeyN, BoolV(last_row.cells[sort_column.s].t = "none") >>,
                << KeyK, _serialize_cursor_value(last_row.cells[sort_column.s]) >> >>
        ELSE << >>)

\* max(1, (filtered_rows + page_size - 1) // page_size)
\* The page count without the floor of one page.
MutTotalPagesOfNone(filtered_rows, page_size) ==
    (filtered_rows + page_size - 1) \div page_size

TotalPages(filtered_rows, page_size) ==
    IF (filtered_rows + page_size - 1) \div page_size > 1
    THEN (filtered_rows + page_size - 1) \div page_size
    ELSE 1

\* catalog: the tables of the connection by name.  rowids is not part of the
\* response: it keeps the rowid of each returned row (raw_rows holds it as
\* __rowid__) for the statements about pages.
\* The response of a call that fetched page_rows.  q is the call's arguments.
PageResponse(page_rows, has_more, filtered_rows, total_rows, q) ==
    [err |-> "", head |-> "", arg |-> << >>,
     rows |-> [k \in 1..Len(page_rows) |-> page_rows[k].cells],
     rowids |-> [k \in 1..Len(page_rows) |-> page_rows[k].rowid],
     totalRows |-> total_rows,
     filteredRows |-> filtered_rows,
     page |-> q.page,
     pageSize |-> q.page_size,
     totalPages |-> TotalPages(filtered_rows, q.page_size),
     nextCursor |-> IF has_more /\ page_rows # << >>
                    THEN _encode_cursor(CursorPayload(AnchorRow(page_rows),
                                                      q.sort_column, q.sort_dir))
                    ELSE NoCursor,
     prevCursor |-> q.cursor]

\* has_more = len(raw_rows) > page_size; page_rows = raw_rows[:page_size]
PageOfRows(raw_rows, filtered_rows, total_rows, q) ==
    PageResponse(Limit(raw_rows, q.page_size), Len(raw_rows) > q.page_size,
                 filtered_rows, total_rows, q)

\* The filtered count taken with the clause of the cursor.
MutCountAfterCursor(tbl, filter_clauses, filter_params, query_clauses, params, q) ==
    PageOfRows(Limit(OrderBy(Where(tbl, query_clauses, params), q.order_col, q.sort_dir),
                     params[Len(params)].i),
               Cardinality(Where(tbl, query_clauses, params)),
               Cardinality(tbl.rows),
               q)

\* The two counts and the SELECT ... ORDER BY ... LIMIT ?.
PageOfQuery(tbl, filter_clauses, filter_params, query_clauses, params, q) ==
    PageOfRows(Limit(OrderBy(Where(tbl, query_clauses, params), q.order_col, q.sort_dir),
                     params[Len(params)].i),
               Cardinality(Where(tbl, filter_clauses, filter_params)),
               Cardinality(tbl.rows),
               q)

\* query_clauses = where_clauses + [cursor_clause]; params end with the limit.
PageOfCursor(tbl, compiled, keyset, q) ==
    IF keyset.err # "" THEN Failed(keyset)
    ELSE PageOfQuery(tbl, compiled.val.clauses, compiled.val.params,
                     IF q.cursor # NoCursor
                     THEN Append(compiled.val.clauses, keyset.val.clause)
                     ELSE compiled.val.clauses,
                     compiled.val.params \o keyset.val.params
                         \o << IntV(FetchLimit(q.page_size)) >>,
                     q)

\* if cursor: the keyset predicate of the cursor.
PageOfFilters(tbl, col_meta, compiled, q) ==
    IF compiled.err # "" THEN Failed(compiled)
    ELSE PageOfCursor(tbl, compiled,
                      IF q.cursor # NoCursor
                      THEN _build_cursor_predicate(q.cursor, q.sort_column, q.sort_dir,
                                                   col_meta)
                      ELSE Ok([clause |-> [col |-> << >>, form |-> ""], params |-> << >>]),
                      q)

\* The sort column is validated, then the filters are compiled.
PageOfColumns(tbl, col_meta, q) ==
    IF q.sort_column.t # "none" /\ q.sort_column.s \notin DOMAIN col_meta
    THEN Failed(RaiseMsg("ValueError", "Invalid sort column: ", q.sort_column.s))
    ELSE PageOfFilters(tbl, col_meta, CompileFilters(q.filters, col_meta), q)

\* table = self._get_table(dataset_id); col_meta = self._get_column_meta(table)
PageOfTable(table, catalog, q) ==
    IF table.err # "" THEN Failed(table)
    ELSE PageOfColumns(catalog[table.val], _get_column_meta(catalog[table.val]), q)

get_page(catalog, datasets, dataset_id, page, page_size, sort_column, sort_direction, filters, cursor) ==
    PageOfTable(_get_table(datasets, dataset_id), catalog,
                [page |-> page, page_size |-> page_size, sort_column |-> sort_column,
                 sort_dir |-> IF PyEq(sort_direction, DescWord) THEN "DESC" ELSE "ASC",
                 order_col |-> IF Truthy(sort_column) THEN sort_column.s ELSE << >>,
                 filters |-> filters, cursor |-> cursor])

\* app.get_page: the status of the response.  An exception the handler does
\* not catch is a 500.
PageStatus(resp) ==
    CASE resp.err = "" -> 200
      [] resp.err = "ValueError" /\ resp.head = "Dataset not found: " -> 404
      [] resp.err \in {"ValueError", "duckdb.Error"} -> 400
      [] OTHER -> 500

\* ------------------------------------------------------------------------
\* The text of the SQL statements
\* ------------------------------------------------------------------------
\* A statement is [sql, params].  sql is a sequence of pieces: a piece is
\* text the code wrote itself (lit), or text interpolated into the f-string
\* (txt), with where that text came from: the engine's own table name or the
\* request.  Each ? is a piece of its own.

Lit(text) == [lit |-> text, txt |-> << >>, from |-> "code"]

Interpolated(from, txt) == [lit |-> "", txt |-> txt, from |-> from]

Statement(sql, params) == [sql |-> sql, params |-> params]

\* ident.replace('"', '""')
RECURSIVE DoubleQuotes(_)
DoubleQuotes(ident) ==
    IF ident = << >> THEN << >>
    ELSE (IF Head(ident) = "\"" THEN << "\"", "\"" >> ELSE << Head(ident) >>)
             \o DoubleQuotes(Tail(ident))

MutQuoteWithoutDoubling(ident) == << "\"" >> \o ident \o << "\"" >>

_quote_ident(ident) == << "\"" >> \o DoubleQuotes(ident) \o << "\"" >>

\* table_sql = self._quote_ident(table)
TableSql(table) == Interpolated("engine", _quote_ident(table))

\* The quoted column of a clause.
ColSql(col) == Interpolated("request", _quote_ident(col))

\* The text of a clause [col, form] of _build_filter_clause or of
\* _build_cursor_predicate.
ClauseSql(clause) ==
    CASE clause.form \in {"IS NULL", "IS NOT NULL"} ->
            << ColSql(clause.col), Lit(" "), Lit(clause.form) >>
      [] clause.form \in {"= ?", "!= ?", "> ?", "< ?", ">= ?", "<= ?", "ILIKE ?"} ->
            << ColSql(clause.col), Lit(" "),
               Lit(CASE clause.form = "= ?" -> "="
                     [] clause.form = "!= ?" -> "!="
                     [] clause.form = "> ?" -> ">"
                     [] clause.form = "< ?" -> "<"
                     [] clause.form = ">= ?" -> ">="
                     [] clause.form = "<= ?" -> "<="
                     [] OTHER -> "ILIKE"),
               Lit(" "), Lit("?") >>
      [] clause.form = "rowid > ?" -> << Lit("rowid > "), Lit("?") >>
      [] clause.form = "(c IS NULL AND rowid > ?)" ->
            << Lit("("), ColSql(clause.col), Lit(" IS NULL AND rowid > "), Lit("?"), Lit(")") >>
      [] clause.form = "(c IS NULL AND rowid < ?)" ->
            << Lit("("), ColSql(clause.col), Lit(" IS NULL AND rowid < "), Lit("?"), Lit(")") >>
      [] clause.form = "((c > ?) OR (c = ? AND rowid > ?) OR c IS NULL)" ->
            << Lit("(("), ColSql(clause.col), Lit(" > "), Lit("?"), Lit(") OR ("),
               ColSql(clause.col), Lit(" = "), Lit("?"), Lit(" AND rowid > "), Lit("?"),
               Lit(") OR "), ColSql(clause.col), Lit(" IS NULL)") >>
      [] OTHER ->
            << Lit("(("), ColSql(clause.col), Lit(" < "), Lit("?"), Lit(") OR ("),
               ColSql(clause.col), Lit(" = "), Lit("?"), Lit(" AND rowid < "), Lit("?"),
               Lit(") OR "), ColSql(clause.col), Lit(" IS NULL)") >>

\* sep.join(parts), each part a sequence of pieces.
RECURSIVE Join(_, _)
Join(sep, parts) ==
    IF parts = << >> THEN << >>
    ELSE IF Len(parts) = 1 THEN parts[1]
    ELSE parts[1] \o << Lit(sep) >> \o Join(sep, Tail(parts))

\* f"WHERE {' AND '.join(clauses)}" if clauses else ""
WhereSql(clauses) ==
    IF clauses = << >> THEN << >>
    ELSE << Lit("WHERE ") >> \o Join(" AND ", [k \in 1..Len(clauses) |-> ClauseSql(clauses[k])])

\* get_page: ORDER BY of the page statement.
PageOrderSql(q) ==
    IF Truthy(q.sort_column)
    THEN << Lit("ORDER BY "), ColSql(q.sort_column.s), Lit(" "), Lit(q.sort_dir),
            Lit(" NULLS LAST, rowid "), Lit(q.sort_dir) >>
    ELSE << Lit("ORDER BY rowid ASC") >>

\* get_page: the two COUNT(*) statements, executed once the filters compiled.
PageCountStatements(table, compiled) ==
    << Statement(<< Lit("SELECT COUNT(*) FROM "), TableSql(table), Lit(" ") >>
                     \o WhereSql(compiled.val.clauses),
                 compiled.val.params),
       Statement(<< Lit("SELECT COUNT(*) FROM "), TableSql(table) >>, << >>) >>

\* get_page: the SELECT of the page, executed once the cursor was accepted.
PageSelectStatement(table, compiled, keyset, q) ==
    Statement(<< Lit("SELECT *, rowid AS \"__rowid__\" FROM "), TableSql(table), Lit(" ") >>
                  \o WhereSql(IF q.cursor # NoCursor
                              THEN Append(compiled.val.clauses, keyset.val.clause)
                              ELSE compiled.val.clauses)
                  \o << Lit(" ") >> \o PageOrderSql(q) \o << Lit(" LIMIT "), Lit("?") >>,
              compiled.val.params \o keyset.val.params \o << IntV(FetchLimit(q.page_size)) >>)

\* The statements of a get_page call whose filters compiled.
PageStatementsOfCursor(table, compiled, keyset, q) ==
    IF keyset.err # "" THEN PageCountStatements(table, compiled)
    ELSE Append(PageCountStatements(table, compiled),
                PageSelectStatement(table, compiled, keyset, q))

PageStatementsOfFilters(table, col_meta, compiled, q) ==
    IF compiled.err # "" THEN << >>
    ELSE PageStatementsOfCursor(table, compiled,
             IF q.cursor # NoCursor
             THEN _build_cursor_predicate(q.cursor, q.sort_column, q.sort_dir, col_meta)
             ELSE Ok([clause |-> [col |-> << >>, form |-> ""], params |-> << >>]),
             q)

PageStatementsOfTable(table, catalog, q) ==
    IF table.err # "" THEN << >>
    ELSE IF q.sort_column.t # "none"
            /\ q.sort_column.s \notin DOMAIN _get_column_meta(catalog[table.val])
    THEN << >>
    ELSE PageStatementsOfFilters(table.val, _get_column_meta(catalog[table.val]),
             CompileFilters(q.filters, _get_column_meta(catalog[table.val])), q)

\* The statements get_page passes to conn.execute, with their parameters,
\* in order.
PageStatements(catalog, datasets, dataset_id, page, page_size, sort_column, sort_direction, filters, cursor) ==
    PageStatementsOfTable(_get_table(datasets, dataset_id), catalog,
                [page |-> page, page_size |-> page_size, sort_column |-> sort_column,
                 sort_dir |-> IF PyEq(sort_direction, DescWord) THEN "DESC" ELSE "ASC",
                 order_col |-> IF Truthy(sort_column) THEN sort_column.s ELSE << >>,
                 filters |-> filters, cursor |-> cursor])

\* ------------------------------------------------------------------------
\* DuckDBEngine.export_csv, run_table_query, profile_column, get_schema
\* ------------------------------------------------------------------------
\* The outcome of these calls is [err, head, arg, statements, rows]: the
\* error raised if any, the statements passed to conn.execute in order, and
\* the rows the last statement selected.

Result(statements, rows) ==
    [err |-> "", head |-> "", arg |-> << >>, statements |-> statements, rows |-> rows]

Failure(e) ==
    [err |-> e.err, head |-> e.head, arg |-> e.arg, statements |-> << >>, rows |-> {}]

\* The outcomes of a loop that raises at its first failing item: the first
\* error, or the values in order.
Collect(outs) ==
    IF \E k \in 1..Len(outs) : outs[k].err # ""
    THEN outs[CHOOSE k \in 1..Len(outs) :
                  outs[k].err # "" /\ \A j \in 1..(k - 1) : outs[j].err = ""]
    ELSE Ok([k \in 1..Len(outs) |-> outs[k].val])

\* export_csv: ORDER BY of the statement.
ExportOrderSql(q) ==
    IF Truthy(q.sort_column)
    THEN << Lit("ORDER BY "), ColSql(q.sort_column.s), Lit(" "), Lit(q.sort_dir),
            Lit(" NULLS LAST") >>
    ELSE << Lit("ORDER BY rowid ASC") >>

\* sql = f"SELECT * FROM {table_sql} {where_sql} {order_sql}"
ExportOfFilters(table, tbl, compiled, q) ==
    IF compiled.err # "" THEN Failure(compiled)
    ELSE Result(<< Statement(<< Lit("SELECT * FROM "), TableSql(table), Lit(" ") >>
                                   \o WhereSql(compiled.val.clauses) \o << Lit(" ") >>
                                   \o ExportOrderSql(q),
                               compiled.val.params) >>,
                  Where(tbl, compiled.val.clauses, compiled.val.params))

ExportOfColumns(table, tbl, col_meta, q) ==
    IF q.sort_column.t # "none" /\ q.sort_column.s \notin DOMAIN col_meta
    THEN Failure(RaiseMsg("ValueError", "Invalid sort column: ", q.sort_column.s))
    ELSE ExportOfFilters(table, tbl, CompileFilters(q.filters, col_meta), q)

ExportOfTable(table, catalog, q) ==
    IF table.err # "" THEN Failure(table)
    ELSE ExportOfColumns(table.val, catalog[table.val],
                         _get_column_meta(catalog[table.val]), q)

\* rows holds the rows of the CSV body.
export_csv(catalog, datasets, dataset_id, sort_column, sort_direction, filters) ==
    ExportOfTable(_get_table(datasets, dataset_id), catalog,
                  [sort_column |-> sort_column,
                   sort_dir |-> IF PyEq(sort_direction, DescWord) THEN "DESC" ELSE "ASC",
                   filters |-> filters])

AggCount == << "c", "o", "u", "n", "t" >>

AggSum == << "s", "u", "m" >>

AggAvg == << "a", "v", "g" >>

AggMin == << "m", "i", "n" >>

AggMax == << "m", "a", "x" >>

Star == << "*" >>

\* agg_ops: the SQL function of an aggregation op.
agg_ops(op) ==
    CASE op = AggCount -> "COUNT"
      [] op = AggSum -> "SUM"
      [] op = AggAvg -> "AVG"
      [] op = AggMin -> "MIN"
      [] op = AggMax -> "MAX"

HAVING_OPERATORS == {OpEq, OpNe, OpGt, OpLt, OpGe, OpLe}

\* alias if isinstance(alias, str) and alias.strip()
\*     else f"{op}_{col.replace('*', 'all')}"
safe_alias(agg) ==
    IF agg.as.t = "str" /\ Strip(agg.as.s) # << >> THEN agg.as.s
    ELSE agg.op.s \o << "_" >>
             \o (IF agg.column.s = Star THEN << "a", "l", "l" >> ELSE agg.column.s)

\* The body of the loop over the aggregations: the error of one aggregation,
\* or its alias, the type of the alias and its SELECT part.
Aggregation(agg, col_meta) ==
    IF agg.op.t # "str" \/ agg.op.s \notin {AggCount, AggSum, AggAvg, AggMin, AggMax}
    THEN RaiseMsg("ValueError", "Unsupported aggregation op: ", PyStr(agg.op))
    ELSE IF agg.column.t # "str" \/ agg.column.s = << >>
    THEN RaiseMsg("ValueError", "Aggregation column is required", << >>)
    ELSE IF agg.column.s # Star /\ agg.column.s \notin DOMAIN col_meta
    THEN RaiseMsg("ValueError", "Invalid aggregation column: ", agg.column.s)
    ELSE IF /\ agg.op.s \in {AggSum, AggAvg}
            /\ agg.column.s # Star
            /\ col_meta[agg.column.s].app_type \notin {"integer", "float"}
    THEN RaiseMsg("ValueError", "Aggregation ",
                  agg.op.s \o << " ", "r", "e", "q", "u", "i", "r", "e", "s", " ", "n", "u", "m", "e", "r", "i", "c", " ", "c", "o", "l", "u", "m", "n", ":", " " >> \o agg.column.s)
    ELSE Ok([alias |-> safe_alias(agg),
             type |-> IF agg.op.s = AggCount THEN "integer"
                      ELSE IF agg.op.s = AggAvg THEN "float"
                      ELSE IF agg.column.s = Star THEN "float"
                      ELSE col_meta[agg.column.s].app_type,
             sql |-> << Lit(agg_ops(agg.op.s)), Lit("("),
                        IF agg.column.s = Star THEN Lit("*") ELSE ColSql(agg.column.s),
                        Lit(") AS "),
                        Interpolated("request", _quote_ident(safe_alias(agg))) >>])

\* agg_alias_types: a later aggregation replaces the type of an equal alias.
AliasTypes(aggs) ==
    [a \in {aggs[k].alias : k \in 1..Len(aggs)} |->
        aggs[CHOOSE k \in 1..Len(aggs) :
                 aggs[k].alias = a /\ \A j \in (k + 1)..Len(aggs) : aggs[j].alias # a].type]

\* The coerced value of a having item as its clause and parameter.
HavingOfValue(h, value) ==
    IF value.err # "" THEN value
    ELSE Ok([sql |-> << Interpolated("request", _quote_ident(h.metric.s)), Lit(" "),
                        Interpolated("request", h.operator.s), Lit(" "), Lit("?") >>,
             params |-> << value.val >>])

\* The body of the loop over the having items.
Having(h, agg_alias_types) ==
    IF h.metric.t # "str" \/ h.metric.s = << >>
    THEN RaiseMsg("ValueError", "HAVING metric is required", << >>)
    ELSE IF h.metric.s \notin DOMAIN agg_alias_types
    THEN RaiseMsg("ValueError", "Invalid HAVING metric: ", h.metric.s)
    ELSE IF h.operator.t # "str" \/ h.operator.s \notin HAVING_OPERATORS
    THEN RaiseMsg("ValueError", "Unsupported HAVING operator '",
                  PyStr(h.operator) \o << "'", " ", "f", "o", "r", " ", "m", "e", "t", "r", "i", "c", " ", "'" >> \o h.metric.s \o << "'" >>)
    ELSE HavingOfValue(h, _coerce_value(h.value, agg_alias_types[h.metric.s],
                                        h.metric.s, h.operator.s))

\* The body of the loop over the sort items.
SortPart(item, col_meta, valid_aliases) ==
    IF item.column.t # "str" \/ item.column.s = << >>
    THEN RaiseMsg("ValueError", "Sort column is required", << >>)
    ELSE IF item.column.s \in DOMAIN col_meta \/ item.column.s \in valid_aliases
    THEN Ok(<< ColSql(item.column.s), Lit(" "),
               Lit(IF PyEq(item.direction, DescWord) THEN "DESC" ELSE "ASC"),
               Lit(" NULLS LAST") >>)
    ELSE RaiseMsg("ValueError", "Invalid sort column: ", item.column.s)

\* select_sql: the group-by columns, then the aggregations; * without both.
SelectSql(group_by, aggs) ==
    IF group_by = << >> /\ aggs = << >> THEN << Lit("*") >>
    ELSE Join(", ", [k \in 1..Len(group_by) |-> << ColSql(group_by[k]) >>]
                        \o [k \in 1..Len(aggs) |-> aggs[k].sql])

\* group_sql: aggregations without groupBy aggregate the whole table.
GroupSql(group_by) ==
    IF group_by = << >> THEN << >>
    ELSE << Lit("GROUP BY ") >>
             \o Join(", ", [k \in 1..Len(group_by) |-> << ColSql(group_by[k]) >>])

HavingSql(having) ==
    IF having = << >> THEN << >>
    ELSE << Lit("HAVING ") >> \o Join(" AND ", [k \in 1..Len(having) |-> having[k].sql])

OrderSql(order_parts) ==
    IF order_parts = << >> THEN << >>
    ELSE << Lit("ORDER BY ") >> \o Join(", ", order_parts)

RECURSIVE Concat(_)
Concat(seqs) == IF seqs = << >> THEN << >> ELSE Head(seqs) \o Concat(Tail(seqs))

\* sql = f"SELECT {select_sql} FROM {table_sql} {where_sql} {group_sql}
\*         {having_sql} {order_sql} LIMIT ?"
\* params = [*filter_params, *having_params, limit]
\* The rows of the result are not carried by the outcome.
TableQueryOfSort(table, compiled, aggs, having, order_parts, spec) ==
    IF order_parts.err # "" THEN Failure(order_parts)
    ELSE Result(<< Statement(<< Lit("SELECT ") >> \o SelectSql(spec.groupBy, aggs)
                                   \o << Lit(" FROM "), TableSql(table), Lit(" ") >>
                                   \o WhereSql(compiled.val.clauses) \o << Lit(" ") >>
                                   \o GroupSql(spec.groupBy) \o << Lit(" ") >>
                                   \o HavingSql(having) \o << Lit(" ") >>
                                   \o OrderSql(order_parts.val)
                                   \o << Lit(" LIMIT "), Lit("?") >>,
                               compiled.val.params
                                   \o Concat([k \in 1..Len(having) |-> having[k].params])
                                   \o << IntV(spec.limit) >>) >>,
                  {})

TableQueryOfHaving(table, col_meta, compiled, aggs, having, spec) ==
    IF having.err # "" THEN Failure(having)
    ELSE TableQueryOfSort(table, compiled, aggs, having.val,
             Collect([k \in 1..Len(spec.sort) |->
                         SortPart(spec.sort[k], col_meta,
                                  {aggs[j].alias : j \in 1..Len(aggs)})]),
             spec)

\* if having_items: HAVING needs aggregations and groupBy, then the loop.
TableQueryOfAggregations(table, col_meta, compiled, aggs, spec) ==
    IF aggs.err # "" THEN Failure(aggs)
    ELSE IF spec.having # << >> /\ aggs.val = << >>
    THEN Failure(RaiseMsg("ValueError", "HAVING requires at least one aggregation", << >>))
    ELSE IF spec.having # << >> /\ spec.groupBy = << >>
    THEN Failure(RaiseMsg("ValueError", "HAVING requires groupBy with aggregations", << >>))
    ELSE TableQueryOfHaving(table, col_meta, compiled, aggs.val,
             Collect([k \in 1..Len(spec.having) |->
                         Having(spec.having[k], AliasTypes(aggs.val))]),
             spec)

TableQueryOfFilters(table, col_meta, compiled, spec) ==
    IF compiled.err # "" THEN Failure(compiled)
    ELSE TableQueryOfAggregations(table, col_meta, compiled,
             Collect([k \in 1..Len(spec.aggregations) |->
                         Aggregation(spec.aggregations[k], col_meta)]),
             spec)

\* The checks of groupBy and limit, in the order of the code.
TableQueryOfColumns(table, col_meta, spec) ==
    IF \E k \in 1..Len(spec.groupBy) : spec.groupBy[k] = << >>
    THEN Failure(RaiseMsg("ValueError", "groupBy must be an array of column names", << >>))
    ELSE IF \E k \in 1..Len(spec.groupBy) : spec.groupBy[k] \notin DOMAIN col_meta
    THEN Failure(RaiseMsg("ValueError", "Invalid groupBy column: ",
                         spec.groupBy[CHOOSE k \in 1..Len(spec.groupBy) :
                             /\ spec.groupBy[k] \notin DOMAIN col_meta
                             /\ \A j \in 1..(k - 1) : spec.groupBy[j] \in DOMAIN col_meta]))
    ELSE IF spec.limit < 1 \/ spec.limit > 10000
    THEN Failure(RaiseMsg("ValueError", "limit must be an integer between 1 and 10000", << >>))
    ELSE TableQueryOfFilters(table, col_meta, CompileFilters(spec.filters, col_meta), spec)

TableQueryOfTable(table, catalog, spec) ==
    IF table.err # "" THEN Failure(table)
    ELSE TableQueryOfColumns(table.val, _get_column_meta(catalog[table.val]), spec)

\* spec is the body of the request: filters, groupBy, aggregations, having,
\* sort and limit, with the types the request model gives them.
run_table_query(catalog, datasets, dataset_id, spec) ==
    TableQueryOfTable(_get_table(datasets, dataset_id), catalog, spec)

\* profile_column, up to the column check; the statistics of the profile
\* are not carried by the outcome.
profile_column(catalog, datasets, dataset_id, column) ==
    IF _get_table(datasets, dataset_id).err # "" THEN Failure(_get_table(datasets, dataset_id))
    ELSE IF column \notin DOMAIN _get_column_meta(catalog[datasets[dataset_id]])
    THEN Failure(RaiseMsg("ValueError", "Column not found: ", column))
    ELSE Result(<< >>, {})

\* get_schema: the columns and the row count of the table.
get_schema(catalog, datasets, dataset_id) ==
    IF _get_table(datasets, dataset_id).err # "" THEN (_get_table(datasets, dataset_id))
    ELSE Ok([columns |-> [k \in 1..Len(catalog[datasets[dataset_id]].cols) |->
                             catalog[datasets[dataset_id]].cols[k][1]],
             rowCount |-> Cardinality(catalog[datasets[dataset_id]].rows)])

\* ------------------------------------------------------------------------
\* app.py: the status of a response
\* ------------------------------------------------------------------------

NotFoundText == << "n", "o", "t", " ", "f", "o", "u", "n", "d" >>

\* pat in text
Contains(text, pat) ==
    \E k \in 1..(Len(text) - Len(pat) + 1) : SubSeq(text, k, k + Len(pat) - 1) = pat

\* "not found" in str(e).lower().  The message is head then arg; of the
\* heads, two hold the words, and none ends with a beginning of them.
MessageHasNotFound(e) ==
    \/ e.head \in {"Dataset not found: ", "Column not found: "}
    \/ Contains(LowerText(e.arg), NotFoundText)

\* get_schema: every ValueError is a 404.
SchemaStatus(out) ==
    CASE out.err = "" -> 200
      [] out.err = "ValueError" -> 404
      [] out.err = "duckdb.Error" -> 400
      [] OTHER -> 500

\* profile_column, run_query, run_table_query, export_dataset.
Status(out) ==
    CASE out.err = "" -> 200
      [] out.err = "ValueError" -> IF MessageHasNotFound(out) THEN 404 ELSE 400
      [] out.err = "duckdb.Error" -> 400
      [] OTHER -> 500

\* ------------------------------------------------------------------------
\* State
\* ------------------------------------------------------------------------

VARIABLES
    datasets,     \* DuckDBEngine.datasets: dataset id -> table name
    catalog,      \* the tables of the connection: table name -> table
    _query_lock,  \* DuckDBEngine._query_lock: the thread holding it, or NoThread
    view,         \* the table the view data of the connection selects from
    threads,      \* each caller of the engine: the call it is in and where
    ops,          \* the number of calls started
    firstPage,    \* per dataset, the rows of the first page call that returned
    req,          \* the page request of the client: sort, filters, page size
    pc,           \* where the client's chain of page calls stands
    pages,        \* the responses of the chain so far, first page first
    probe,        \* the last call made outside the chain, with its response
    IMPORT_SESSIONS,  \* app.IMPORT_SESSIONS: import id -> session
    DATA_DIR,     \* the files written to the data directory: path -> content
    uuids,        \* the number of uuid4() values drawn by the handlers
    modules,      \* the attributes set on the modules of the process: pd, builtins
    frame         \* the data frame of the caller of execute_python_code

engineVars == << _query_lock, view, threads, ops, firstPage >>

chainVars == << req, pc, pages, probe >>

\* What a code cell can reach: the modules of the process, and the caller's
\* frame it is given.
cellVars == << modules, frame >>

appVars == << IMPORT_SESSIONS, DATA_DIR, uuids, cellVars >>

vars == << datasets, catalog, _query_lock, view, threads, ops, firstPage,
           req, pc, pages, probe, IMPORT_SESSIONS, DATA_DIR, uuids, modules, frame >>

\* ------------------------------------------------------------------------
\* Inputs
\* ------------------------------------------------------------------------

\* The tables a load can create: CREATE TABLE AS SELECT gives the n rows of
\* the file the rowids 0..n-1.
FileTables ==
    UNION {{[cols |-> Schema,
             rows |-> {[rowid |-> k - 1, cells |-> f[k]] : k \in 1..n}] :
            f \in [1..n -> Cells]} : n \in 0..MaxRows}

Filter(col, op, value) ==
    AsDict(<< << KeyColumn, StrV(col) >>, << KeyOperator, StrV(op) >>, << KeyValue, value >> >>)

FilterLists ==
    {<< >>,
     << Filter(ColG, OpIsNotNull, NoneV) >>,
     << Filter(ColId, OpGe, IntV(2)), Filter(ColG, OpContains, StrV(<< "A" >>)) >>}

Requests ==
    [page_size : 1..MaxPageSize, sort_column : SortColumns,
     sort_direction : SortDirections, filters : FilterLists]

\* A call made outside the chain: its kind, the sort it was made under, the
\* cursor passed and the response; for a codec probe the payload encoded and
\* the outcome of decoding the token again.
Probe(kind, sort_column, sort_direction, cursor, resp, payload, decoded) ==
    [kind |-> kind, sort_column |-> sort_column, sort_direction |-> sort_direction,
     cursor |-> cursor, resp |-> resp, payload |-> payload, decoded |-> decoded]

NoProbe == Probe("none", NoneV, NoneV, NoCursor, Failed(Ok(NoneV)), << >>, Ok(NoneV))

TheDataset == "a"

\* The callers of the engine, and no caller.
Threads == {"t1", "t2"}

NoThread == "none"

\* The view data does not exist.
NoView == << >>

\* The values uuid4().hex[:12] takes in the model: few, so that two loads
\* can draw the same one.
IdPool == {"a", "b"}

\* A caller outside any call.  done and out are the call it made last and
\* that call's outcome.
Idle ==
    [op |-> "idle", pc |-> "", dataset_id |-> "", sql |-> "", file |-> << >>,
     local |-> << >>, done |-> "", out |-> Ok(NoneV)]

NoPage == [rows |-> << >>, rowids |-> << >>, seen |-> FALSE]

\* The engine after __init__: no dataset, the lock free, no view.
EngineIdle ==
    /\ _query_lock = NoThread
    /\ view = NoView
    /\ threads = [t \in Threads |-> Idle]
    /\ ops = 0
    /\ firstPage = [id \in IdPool |-> NoPage]

\* The modules of the process as imported: no attribute set on them.
FreshModules == [pd |-> {}, builtins |-> {}]

\* The frame column a holding 1, 2.
FrameOfTwo == << 1, 2 >>

\* The module state of app.py at start: no import session, nothing stored;
\* the modules as imported.
AppIdle ==
    /\ IMPORT_SESSIONS = << >>
    /\ DATA_DIR = << >>
    /\ uuids = 0
    /\ modules = FreshModules
    /\ frame = FrameOfTwo


Call(r, cursor) ==
    get_page(catalog, datasets, TheDataset, Len(pages), r.page_size, r.sort_column,
             r.sort_direction, r.filters, cursor)

\* ------------------------------------------------------------------------
\* The chain of page calls of one client
\* ------------------------------------------------------------------------

\* After load_file: one dataset in the registry, and a request chosen.
Init ==
    /\ datasets = [id \in {TheDataset} |-> TableName(id)]
    /\ \E tbl \in FileTables : catalog = [t \in {TableName(TheDataset)} |-> tbl]
    /\ req \in Requests
    /\ pc = "start"
    /\ pages = << >>
    /\ probe = NoProbe
    /\ EngineIdle
    /\ AppIdle

\* The first call of a chain carries no cursor.
FirstPage ==
    /\ pc = "start"
    /\ \E resp \in {Call(req, NoCursor)} :
        /\ pages' = << resp >>
        /\ pc' = IF resp.err # "" THEN "failed"
                 ELSE IF resp.nextCursor = NoCursor THEN "end" ELSE "paging"
    /\ UNCHANGED << datasets, catalog, req, probe, engineVars, appVars >>

\* Each later call passes the nextCursor of the response before it.
NextPage ==
    /\ pc = "paging"
    /\ \E resp \in {Call(req, pages[Len(pages)].nextCursor)} :
        /\ pages' = Append(pages, resp)
        /\ pc' = IF resp.err # "" THEN "failed"
                 ELSE IF resp.nextCursor = NoCursor THEN "end" ELSE "paging"
    /\ UNCHANGED << datasets, catalog, req, probe, engineVars, appVars >>

Next == FirstPage \/ NextPage

Spec == Init /\ [][Next]_vars

\* ------------------------------------------------------------------------
\* Statements about a chain of pages
\* ------------------------------------------------------------------------

TheTable == catalog[TableName(TheDataset)]

RowOf(rowid) == CHOOSE row \in TheTable.rows : row.rowid = rowid

\* The rows matching all the filters of the request, stated on the cells.
MatchesFilters(row, filters) ==
    \A k \in 1..Len(filters) :
        LET c == row.cells[filters[k][KeyColumn].s]
            op == filters[k][KeyOperator].s
            v == filters[k][KeyValue]
        IN  CASE op = OpIsNotNull -> c # NoneV
              [] op = OpGe -> c # NoneV /\ c.i >= v.i
              [] op = OpContains ->
                    /\ c # NoneV
                    /\ \E j \in 1..Len(c.s) :
                           LowerText(SubSeq(c.s, j, j + Len(v.s) - 1)) = LowerText(v.s)
              [] OTHER -> FALSE

\* r1 comes before r2 in the declared order: the sort column in the
\* direction, NULLs last, then rowid in the same direction; rowid ascending
\* without a sort column.
DeclaredBefore(r1, r2, r) ==
    LET desc == r.sort_direction = DescWord
        byId == IF desc /\ r.sort_column # NoneV
                THEN r1.rowid > r2.rowid ELSE r1.rowid < r2.rowid
        a == r1.cells[r.sort_column.s]
        b == r2.cells[r.sort_column.s]
    IN  IF r.sort_column = NoneV THEN byId
        ELSE IF a = b THEN byId
        ELSE IF a = NoneV THEN FALSE
        ELSE IF b = NoneV THEN TRUE
        ELSE IF a.t = "int" THEN (IF desc THEN a.i > b.i ELSE a.i < b.i)
        ELSE (IF desc THEN TextLess(b.s, a.s) ELSE TextLess(a.s, b.s))

\* The rowids of the pages of the chain, first page first.
RECURSIVE ChainRowids(_)
ChainRowids(ps) ==
    IF ps = << >> THEN << >>
    ELSE ChainRowids(SubSeq(ps, 1, Len(ps) - 1)) \o ps[Len(ps)].rowids

RECURSIVE ChainRows(_)
ChainRows(ps) ==
    IF ps = << >> THEN << >>
    ELSE ChainRows(SubSeq(ps, 1, Len(ps) - 1)) \o ps[Len(ps)].rows

\* C1: a chain of get_page calls that starts without a cursor and passes
\* each nextCursor on never fails, and once it has ended its pages,
\* concatenated, hold every row matching the filters exactly once, in the
\* declared order (NULLs last, rowid breaking ties), and as many rows as
\* filteredRows says.
C1_ChainIsTheFilteredSetInOrder ==
    /\ pc # "failed"
    /\ pc = "end" =>
        LET ids == ChainRowids(pages)
            matching == {row \in TheTable.rows : MatchesFilters(row, req.filters)}
        IN  /\ {ids[k] : k \in 1..Len(ids)} = {row.rowid : row \in matching}
            /\ Len(ids) = Cardinality(matching)
            /\ \A i, j \in 1..Len(ids) :
                   i < j => DeclaredBefore(RowOf(ids[i]), RowOf(ids[j]), req)
            /\ ChainRows(pages) = [k \in 1..Len(ids) |-> RowOf(ids[k]).cells]
            /\ \A k \in 1..Len(pages) : pages[k].filteredRows = Len(ids)

\* A chain of three pages over rows with a NULL in the sort column has ended.
C1_Witness ==
    /\ pc = "end"
    /\ Len(pages) = 3
    /\ req.sort_column = StrV(ColG)
    /\ \E k \in 1..Len(ChainRows(pages)) : ChainRows(pages)[k][ColG] = NoneV
    /\ \E k \in 1..Len(ChainRows(pages)) : ChainRows(pages)[k][ColG] # NoneV

\* C2: for two adjacent pages of a chain, the last row of the first is not
\* after the first row of the second by the sort column (NULLs last), and
\* when the two have equal values or are both NULL the rowid of the second
\* is strictly greater (asc) or strictly smaller (desc).
C2_AdjacentPagesInOrder ==
    \A k \in 1..(Len(pages) - 1) :
        (pages[k].err = "" /\ pages[k + 1].err = "" /\ pages[k + 1].rowids # << >>) =>
            LET p == pages[k]
                q == pages[k + 1]
                lastId == p.rowids[Len(p.rowids)]
                firstId == q.rowids[1]
                a == p.rows[Len(p.rows)]
                b == q.rows[1]
                col == req.sort_column.s
                desc == req.sort_direction = DescWord
            IN  IF req.sort_column = NoneV THEN firstId > lastId
                ELSE IF a[col] = b[col]
                THEN (IF desc THEN firstId < lastId ELSE firstId > lastId)
                ELSE /\ a[col] # NoneV
                     /\ b[col] = NoneV \/
                            (IF a[col].t = "int"
                             THEN (IF desc THEN a[col].i > b[col].i ELSE a[col].i < b[col].i)
                             ELSE (IF desc THEN TextLess(b[col].s, a[col].s)
                                   ELSE TextLess(a[col].s, b[col].s)))

\* Two adjacent pages of a descending chain meet at rows of equal sort value.
C2_Witness ==
    /\ Len(pages) >= 2
    /\ req.sort_column # NoneV
    /\ req.sort_direction = DescWord
    /\ pages[2].err = ""
    /\ pages[2].rowids # << >>
    /\ pages[1].rows[Len(pages[1].rows)][req.sort_column.s]
           = pages[2].rows[1][req.sort_column.s]

\* The payloads of the cursors the chain has issued, with the direction each
\* was issued under.
IssuedPayloads ==
    {_decode_cursor(pages[k].nextCursor).val :
        k \in {j \in 1..Len(pages) : pages[j].err = "" /\ pages[j].nextCursor # NoCursor}}

RequestDir == StrV(IF req.sort_direction = DescWord THEN DescText ELSE AscText)

SampleCells ==
    << Row(IntV(1), StrV(<< "a" >>)), Row(IntV(1), NoneV),
       Row(NoneV, StrV(<< "a" >>)), Row(IntV(2), StrV(<< "b" >>)) >>

SampleTable ==
    [cols |-> Schema,
     rows |-> {[rowid |-> k - 1, cells |-> SampleCells[((k - 1) % Len(SampleCells)) + 1]] :
                  k \in 1..MaxRows}]

CursorInit ==
    /\ datasets = [id \in {TheDataset} |-> TableName(id)]
    /\ catalog = [t \in {TableName(TheDataset)} |-> SampleTable]
    /\ req \in {r \in Requests : r.filters = << >>}
    /\ pc = "start"
    /\ pages = << >>
    /\ probe = NoProbe
    /\ EngineIdle
    /\ AppIdle

IssuedCursors ==
    {pages[k].nextCursor :
        k \in {j \in 1..Len(pages) : pages[j].err = "" /\ pages[j].nextCursor # NoCursor}}

SortDirOf(sort_direction) == IF PyEq(sort_direction, DescWord) THEN "DESC" ELSE "ASC"

\* A cursor the chain issued comes back under another sort column or another
\* direction.
ReuseCursor ==
    /\ probe = NoProbe
    /\ \E cursor \in IssuedCursors, sc \in SortColumns, sd \in SortDirections :
        /\ sc # req.sort_column \/ SortDirOf(sd) # SortDirOf(req.sort_direction)
        /\ probe' = Probe("stale", sc, sd, cursor,
                          get_page(catalog, datasets, TheDataset, 0, req.page_size,
                                   sc, sd, req.filters, cursor),
                          << >>, Ok(NoneV))
    /\ UNCHANGED << datasets, catalog, req, pc, pages, engineVars, appVars >>

\* The versions a forged cursor carries in place of 1: other numbers, a
\* text, null.  (json.loads reads true as True, which Python compares equal
\* to 1: such a payload is read as version 1.)
OtherVersions == {IntV(0), IntV(2), StrV(<< "1" >>), NoneV}

ReplaceVersion(payload, v) == << << KeyV, v >> >> \o Tail(payload)

\* A cursor made for the request's own sort, but of another version or of
\* none.
ForgeVersion ==
    /\ probe = NoProbe
    /\ \E row \in TheTable.rows, v \in OtherVersions, drop \in BOOLEAN :
        \E made \in {CursorPayload(row, req.sort_column, SortDirOf(req.sort_direction))} :
            \E payload \in {IF drop THEN Tail(made) ELSE ReplaceVersion(made, v)} :
                \E cursor \in {_encode_cursor(payload)} :
                    probe' = Probe("version", req.sort_column, req.sort_direction, cursor,
                                   Call(req, cursor), payload, Ok(NoneV))
    /\ UNCHANGED << datasets, catalog, req, pc, pages, engineVars, appVars >>

\* The token of a text that need not be the JSON of an object.
TokenOfText(txt) == RStripPad(B64Encode(TextToBytes(txt)))

\* payload with the pair of key replaced by <<key, v>>, or without it.
WithKey(payload, key, v) ==
    [k \in 1..Len(payload) |-> IF payload[k][1] = key THEN << key, v >> ELSE payload[k]]

WithoutKey(payload, key) ==
    LET Other(pair) == pair[1] # key IN SelectSeq(payload, Other)

\* Tokens a client can send that no get_page call issued: not base64url,
\* not JSON, JSON that is not an object, and objects made for the request's
\* own sort whose r, k, n, s or d is missing or of another type.
ForgedCursors(r) ==
    LET row == CHOOSE q \in TheTable.rows : q.rowid = 0
        made == CursorPayload(row, r.sort_column, SortDirOf(r.sort_direction))
        sorted == r.sort_column # NoneV
    IN  {<< "!" >>, << "a" >>, << "a", "b", "!", "?" >>, << "=", "=" >>}
        \cup {TokenOfText(txt) :
                txt \in {<< "a", "b", "c" >>, << "[", "1", "]" >>, << "7" >>,
                         << "{" >>, << "n", "u", "l", "l" >>}}
        \cup {_encode_cursor(WithKey(made, KeyR, v)) :
                v \in {NoneV, ListV(<< IntV(1) >>), DictV(<< >>), StrV(<< "a", "b", "c" >>),
                       StrV(<< "1" >>), BoolV(TRUE)}}
        \cup {_encode_cursor(WithoutKey(made, KeyR))}
        \cup {_encode_cursor(WithKey(made, KeyS, ListV(<< >>))),
              _encode_cursor(WithKey(made, KeyD, IntV(1)))}
        \cup (IF sorted
              THEN {_encode_cursor(WithKey(WithKey(made, KeyN, BoolV(FALSE)), KeyK, v)) :
                        v \in {ListV(<< >>), DictV(<< >>), StrV(<< "x" >>), IntV(1)}}
                   \cup {_encode_cursor(WithoutKey(WithKey(made, KeyN, BoolV(FALSE)), KeyK)),
                         _encode_cursor(WithKey(made, KeyN, ListV(<< >>)))}
              ELSE {})

ForgeCursor ==
    /\ probe = NoProbe
    /\ \E cursor \in ForgedCursors(req) :
        probe' = Probe("forged", req.sort_column, req.sort_direction, cursor,
                       Call(req, cursor), << >>, Ok(NoneV))
    /\ UNCHANGED << datasets, catalog, req, pc, pages, engineVars, appVars >>

\* Payloads get_page can build: v, s, d, r and, under a sort, n and k, with
\* null, booleans, integers and texts (empty, with a quote, a backslash, a
\* blank) as k, and rowids of one to three digits.
CodecRows ==
    TheTable.rows
    \cup {[rowid |-> n, cells |-> Row(i, g)] :
            n \in {10, 123},
            i \in {IntV(-5), BoolV(TRUE), IntV(40)},
            g \in {StrV(<< >>), StrV(<< "\"", "\\", "/" >>), StrV(<< " ", "=", "{" >>)}}

CodecPayloads ==
    {CursorPayload(row, sc, dir) :
        row \in CodecRows, sc \in SortColumns, dir \in {"ASC", "DESC"}}

\* A payload is encoded and the token decoded again.
EncodeDecode ==
    /\ probe = NoProbe
    /\ \E payload \in CodecPayloads :
        \E cursor \in {_encode_cursor(payload)} :
            probe' = Probe("codec", NoneV, NoneV, cursor, Failed(Ok(NoneV)), payload,
                           _decode_cursor(cursor))
    /\ UNCHANGED << datasets, catalog, req, pc, pages, engineVars, appVars >>

CursorNext == FirstPage \/ NextPage \/ ReuseCursor \/ ForgeVersion \/ ForgeCursor \/ EncodeDecode

CursorSpec == CursorInit /\ [][CursorNext]_vars

C4_EveryCursorFailureIs400 ==
    (probe.kind = "forged" /\ probe.resp.err # "") => PageStatus(probe.resp) = 400

\* A token that is not the JSON of an object has been refused with 400.
C4_Witness ==
    /\ probe.kind = "forged"
    /\ probe.cursor = TokenOfText(<< "[", "1", "]" >>)
    /\ PageStatus(probe.resp) = 400

\* C5: decoding the token of a payload get_page can build gives the payload
\* back, and the token holds no = character.
C5_CursorRoundTrip ==
    probe.kind = "codec" =>
        /\ probe.decoded.err = ""
        /\ probe.decoded.val = AsDict(probe.payload)
        /\ \A k \in 1..Len(probe.cursor) : probe.cursor[k] # "="

\* A payload whose base64 form ends in padding, with a quote and a backslash
\* in its key, has made the round trip.
C5_Witness ==
    /\ probe.kind = "codec"
    /\ probe.decoded.err = ""
    /\ Len(probe.cursor) % 4 # 0
    /\ \E k \in 1..Len(probe.payload) :
           probe.payload[k] = << KeyK, StrV(<< "\"", "\\", "/" >>) >>

\* ------------------------------------------------------------------------
\* The engine under concurrent callers: load_file, get_page, run_query
\* ------------------------------------------------------------------------
\* Each caller is a thread inside one method of DuckDBEngine.  A step is one
\* statement on the connection, one access to the registry or one operation
\* on the lock; pc names the step the caller is about to take.

MaxOps == 4

\* The files loaded: their rows in order.
Files ==
    {<< Row(IntV(1), StrV(<< "a" >>)), Row(IntV(2), StrV(<< "b" >>)) >>,
     << Row(IntV(1), NoneV) >>}

FileTable(file) ==
    [cols |-> Schema,
     rows |-> {[rowid |-> k - 1, cells |-> file[k]] : k \in 1..Len(file)}]

\* The user SQL of run_query: a SELECT over data, a statement the engine
\* rejects, a statement without a result (CREATE OR REPLACE TEMP TABLE ...),
\* and DELETE FROM "ds_<id>" on the table of the call's dataset.  (DROP
\* TABLE and statements on the view itself are not among them.)
SqlKinds == {"select", "error", "nonselect", "delete"}

\* The one page request of the callers: the first page of page size
\* MaxPageSize, unsorted, unfiltered.
PageRequest ==
    [page_size |-> MaxPageSize, sort_column |-> NoneV,
     sort_direction |-> StrV(<< "a", "s", "c" >>), filters |-> << >>]

EngineInit ==
    /\ datasets = << >>
    /\ catalog = << >>
    /\ EngineIdle
    /\ AppIdle
    /\ req = PageRequest
    /\ pc = "idle"
    /\ pages = << >>
    /\ probe = NoProbe

\* Where statements on the connection are executed.
StatementSteps ==
    {"create", "meta", "count_filtered", "count_total", "select",
     "create_view", "execute", "drop_view"}

Begin(op, first, dataset_id, sql, file) ==
    [Idle EXCEPT !.op = op, !.pc = first, !.dataset_id = dataset_id, !.sql = sql,
                 !.file = file]

Finish(th, out) == [Idle EXCEPT !.done = th.op, !.dataset_id = th.dataset_id,
                                !.sql = th.sql, !.file = th.file, !.out = out]

Inside(t, op, step) == threads[t].op = op /\ threads[t].pc = step

Goto(t, step) == threads' = [threads EXCEPT ![t].pc = step]

\* CREATE OR REPLACE TABLE in place of CREATE TABLE.
MutCreateOrReplaceTable(cat, name, tbl) ==
    Ok([n \in DOMAIN cat \cup {name} |-> IF n = name THEN tbl ELSE cat[n]])

\* CREATE TABLE name AS SELECT ...: an error when the name is taken.
CreateTable(cat, name, tbl) ==
    IF name \in DOMAIN cat THEN Raise("duckdb.Error")
    ELSE Ok([n \in DOMAIN cat \cup {name} |-> IF n = name THEN tbl ELSE cat[n]])

\* load_file: dataset_id = uuid.uuid4().hex[:12]
LoadStart(t) ==
    /\ threads[t].op = "idle"
    /\ ops < MaxOps
    /\ \E id \in IdPool, file \in Files :
           threads' = [threads EXCEPT ![t] = Begin("load_file", "create", id, "", file)]
    /\ ops' = ops + 1
    /\ UNCHANGED << datasets, catalog, _query_lock, view, firstPage, chainVars, appVars >>

\* load_file: conn.execute(CREATE TABLE ...)
LoadCreate(t) ==
    /\ Inside(t, "load_file", "create")
    /\ LET th == threads[t]
           made == CreateTable(catalog, TableName(th.dataset_id), FileTable(th.file))
       IN  IF made.err # ""
           THEN /\ threads' = [threads EXCEPT ![t] = Finish(th, made)]
                /\ UNCHANGED catalog
           ELSE /\ catalog' = made.val
                /\ Goto(t, "register")
    /\ UNCHANGED << datasets, _query_lock, view, ops, firstPage, chainVars, appVars >>

\* load_file: self.datasets[dataset_id] = table_name; return dataset_id
LoadRegister(t) ==
    /\ Inside(t, "load_file", "register")
    /\ LET th == threads[t] IN
        /\ datasets' = [id \in DOMAIN datasets \cup {th.dataset_id} |->
                           IF id = th.dataset_id THEN TableName(id) ELSE datasets[id]]
        /\ threads' = [threads EXCEPT ![t] = Finish(th, Ok(StrV(<< th.dataset_id >>)))]
    /\ UNCHANGED << catalog, _query_lock, view, ops, firstPage, chainVars, appVars >>

\* get_page: table = self._get_table(dataset_id)
PageStart(t) ==
    /\ threads[t].op = "idle"
    /\ ops < MaxOps
    /\ \E id \in IdPool :
        LET table == _get_table(datasets, id)
            th == Begin("get_page", "meta", id, "", << >>)
        IN  threads' = [threads EXCEPT ![t] =
                            IF table.err # "" THEN Finish(th, Failed(table)) ELSE th]
    /\ ops' = ops + 1
    /\ UNCHANGED << datasets, catalog, _query_lock, view, firstPage, chainVars, appVars >>

\* get_page: col_meta = self._get_column_meta(table) (PRAGMA table_info)
PageMeta(t) ==
    /\ Inside(t, "get_page", "meta")
    /\ Goto(t, "count_filtered")
    /\ UNCHANGED << datasets, catalog, _query_lock, view, ops, firstPage, chainVars, appVars >>

\* The call of the caller's request on the tables as they are now.
PageNow(t) ==
    get_page(catalog, datasets, threads[t].dataset_id, 0, req.page_size,
             req.sort_column, req.sort_direction, req.filters, NoCursor)

\* get_page: SELECT COUNT(*) FROM table WHERE filters
PageCountFiltered(t) ==
    /\ Inside(t, "get_page", "count_filtered")
    /\ threads' = [threads EXCEPT ![t].pc = "count_total",
                                  ![t].local = << PageNow(t).filteredRows >>]
    /\ UNCHANGED << datasets, catalog, _query_lock, view, ops, firstPage, chainVars, appVars >>

\* get_page: SELECT COUNT(*) FROM table
PageCountTotal(t) ==
    /\ Inside(t, "get_page", "count_total")
    /\ threads' = [threads EXCEPT ![t].pc = "select",
                                  ![t].local = Append(@, PageNow(t).totalRows)]
    /\ UNCHANGED << datasets, catalog, _query_lock, view, ops, firstPage, chainVars, appVars >>

\* get_page: the SELECT of the page, and the response built from it and
\* from the two counts read before.
PageSelect(t) ==
    /\ Inside(t, "get_page", "select")
    /\ \E th \in {threads[t]} :
        \E resp \in {[PageNow(t) EXCEPT
                          !.filteredRows = th.local[1],
                          !.totalRows = th.local[2],
                          !.totalPages = TotalPages(th.local[1], req.page_size)]} :
            /\ threads' = [threads EXCEPT ![t] = Finish(th, resp)]
            /\ firstPage' =
                   IF firstPage[th.dataset_id].seen THEN firstPage
                   ELSE [firstPage EXCEPT ![th.dataset_id] =
                             [rows |-> resp.rows, rowids |-> resp.rowids, seen |-> TRUE]]
    /\ UNCHANGED << datasets, catalog, _query_lock, view, ops, chainVars, appVars >>

\* run_query: table = self._get_table(dataset_id)
QueryStart(t) ==
    /\ threads[t].op = "idle"
    /\ ops < MaxOps
    /\ \E id \in IdPool, sql \in SqlKinds :
        LET table == _get_table(datasets, id)
            th == Begin("run_query", "acquire", id, sql, << >>)
        IN  threads' = [threads EXCEPT ![t] =
                            IF table.err # "" THEN Finish(th, table) ELSE th]
    /\ ops' = ops + 1
    /\ UNCHANGED << datasets, catalog, _query_lock, view, firstPage, chainVars, appVars >>

\* run_query: with self._query_lock (entry; blocks while the lock is held)
QueryAcquire(t) ==
    /\ Inside(t, "run_query", "acquire")
    /\ _query_lock = NoThread
    /\ _query_lock' = t
    /\ Goto(t, "create_view")
    /\ UNCHANGED << datasets, catalog, view, ops, firstPage, chainVars, appVars >>

\* run_query: CREATE OR REPLACE VIEW data AS SELECT * FROM table
QueryCreateView(t) ==
    /\ Inside(t, "run_query", "create_view")
    /\ view' = datasets[threads[t].dataset_id]
    /\ Goto(t, "execute")
    /\ UNCHANGED << datasets, catalog, _query_lock, ops, firstPage, chainVars, appVars >>

\* The outcome of the user SQL: val is [table, rowids], the table data
\* selected from when the statement ran and the rows it returned.
Execute(sql, cat, data) ==
    CASE sql = "error" -> Raise("duckdb.Error")
      [] sql = "select" ->
            IF data = NoView THEN Raise("duckdb.Error")
            ELSE Ok([table |-> data, rowids |-> {row.rowid : row \in cat[data].rows}])
      [] OTHER -> Ok([table |-> data, rowids |-> {}])

\* The tables after the user SQL.
ExecuteEffect(sql, cat, own) ==
    IF sql = "delete" THEN [cat EXCEPT ![own].rows = {}] ELSE cat

\* run_query: result = self.conn.execute(sql), inside try
QueryExecute(t) ==
    /\ Inside(t, "run_query", "execute")
    /\ LET th == threads[t] IN
        /\ threads' = [threads EXCEPT ![t].pc = "drop_view",
                                      ![t].local = Execute(th.sql, catalog, view)]
        /\ catalog' = ExecuteEffect(th.sql, catalog, datasets[th.dataset_id])
    /\ UNCHANGED << datasets, _query_lock, view, ops, firstPage, chainVars, appVars >>

MutKeepView(data) == data

\* DROP VIEW IF EXISTS data
DropView(data) == NoView

\* run_query: finally: self.conn.execute("DROP VIEW IF EXISTS data")
QueryDropView(t) ==
    /\ Inside(t, "run_query", "drop_view")
    /\ view' = DropView(view)
    /\ Goto(t, "release")
    /\ UNCHANGED << datasets, catalog, _query_lock, ops, firstPage, chainVars, appVars >>

\* run_query: the end of the with block, then the result or the exception
QueryRelease(t) ==
    /\ Inside(t, "run_query", "release")
    /\ _query_lock' = NoThread
    /\ threads' = [threads EXCEPT ![t] = Finish(threads[t], threads[t].local)]
    /\ UNCHANGED << datasets, catalog, view, ops, firstPage, chainVars, appVars >>

EngineNext ==
    \E t \in Threads :
        \/ LoadStart(t) \/ LoadCreate(t) \/ LoadRegister(t)
        \/ PageStart(t) \/ PageMeta(t) \/ PageCountFiltered(t) \/ PageCountTotal(t)
        \/ PageSelect(t)
        \/ QueryStart(t) \/ QueryAcquire(t) \/ QueryCreateView(t) \/ QueryExecute(t)
        \/ QueryDropView(t) \/ QueryRelease(t)

EngineSpec == EngineInit /\ [][EngineNext]_vars

\* ------------------------------------------------------------------------
\* Statements about the engine under concurrent callers
\* ------------------------------------------------------------------------

Returned(t, op) == threads[t].op = "idle" /\ threads[t].done = op

\* C7: two get_page calls with the same dataset, filters, sort, page size
\* and cursor return the same rows, whatever calls run between or beside
\* them: every page call that returns rows returns the rows the first such
\* call on its dataset returned.
C7_SamePageCallSameRows ==
    \A t \in Threads :
        (Returned(t, "get_page") /\ threads[t].out.err = "") =>
            /\ firstPage[threads[t].dataset_id].seen
            /\ threads[t].out.rows = firstPage[threads[t].dataset_id].rows
            /\ threads[t].out.rowids = firstPage[threads[t].dataset_id].rowids

\* Two callers have each had a page of the same dataset.
C7_Witness ==
    \E t, u \in Threads :
        /\ t # u
        /\ Returned(t, "get_page") /\ threads[t].out.err = ""
        /\ Returned(u, "get_page") /\ threads[u].out.err = ""
        /\ threads[t].dataset_id = threads[u].dataset_id
        /\ threads[t].out.rows # << >>

\* C8: at most one caller is executing a statement on the connection, and
\* every caller that executes one (in load_file, get_page or run_query)
\* holds the lock while it does.
C8_StatementsOnlyUnderTheLock ==
    /\ Cardinality({t \in Threads : threads[t].pc \in StatementSteps}) <= 1
    /\ \A t \in Threads : threads[t].pc \in StatementSteps => _query_lock = t

\* A caller of run_query is executing the user SQL with the lock held.
C8_Witness ==
    \E t \in Threads : Inside(t, "run_query", "execute") /\ _query_lock = t

\* C9: run_query creates the view data over its dataset's table, executes
\* the user SQL and drops the view while it holds the lock: the user SQL of
\* every call sees data bound to the table of the call's own dataset, and
\* once a call has returned or failed on the user SQL the lock is no longer
\* the call's; while the lock is free the view does not exist.
C9_ViewLivesInsideTheLock ==
    /\ \A t \in Threads :
           threads[t].pc \in {"create_view", "execute", "drop_view", "release"}
               => _query_lock = t
    /\ \A t \in Threads :
           Inside(t, "run_query", "execute") => view = TableName(threads[t].dataset_id)
    /\ \A t \in Threads :
           (Returned(t, "run_query") /\ threads[t].out.err = "")
               => threads[t].out.val.table = TableName(threads[t].dataset_id)
    /\ \A t \in Threads : threads[t].op = "idle" => _query_lock # t
    /\ _query_lock = NoThread => view = NoView

\* A call on one dataset is at its user SQL, holding the lock, while a call
\* on another dataset waits for it.
C9_Witness ==
    \E t, u \in Threads :
        /\ Inside(t, "run_query", "execute")
        /\ Inside(u, "run_query", "acquire")
        /\ threads[t].dataset_id # threads[u].dataset_id
        /\ view = TableName(threads[t].dataset_id)

\* C10: the registry only grows: no step removes or changes an entry; a
\* load_file that returns adds exactly one entry, id -> ds_id, for an id
\* that had none, and nothing else changes the registry; no step of a
\* load_file changes or removes a table that exists (a load that draws an
\* id already in use fails and leaves that dataset as it was); distinct ids
\* map to distinct tables.
C10_Step ==
    /\ \A id \in DOMAIN datasets :
           id \in DOMAIN datasets' /\ datasets'[id] = datasets[id]
    /\ \A t \in Threads :
           (threads[t].op = "load_file" /\ threads'[t].op = "idle"
                /\ threads'[t].out.err = "") =>
               /\ threads[t].dataset_id \notin DOMAIN datasets
               /\ DOMAIN datasets' = DOMAIN datasets \cup {threads[t].dataset_id}
               /\ datasets'[threads[t].dataset_id] = TableName(threads[t].dataset_id)
    /\ datasets' # datasets =>
           \E t \in Threads :
               threads[t].op = "load_file" /\ threads'[t].op = "idle"
                   /\ threads'[t].out.err = ""
    /\ \A t \in Threads :
           (threads[t].op = "load_file" /\ threads'[t] # threads[t]) =>
               \A name \in DOMAIN catalog :
                   name \in DOMAIN catalog' /\ catalog'[name] = catalog[name]
    /\ \A id1, id2 \in DOMAIN datasets' :
           id1 # id2 => datasets'[id1] # datasets'[id2]

C10_IdsAreNeverReused == [][C10_Step]_vars

\* A load drew the id of a registered dataset holding another file's rows,
\* and failed.
C10_Witness ==
    \E t \in Threads :
        /\ Returned(t, "load_file")
        /\ threads[t].out.err = "duckdb.Error"
        /\ threads[t].dataset_id \in DOMAIN datasets
        /\ catalog[TableName(threads[t].dataset_id)].rows # {}
        /\ catalog[TableName(threads[t].dataset_id)] # FileTable(threads[t].file)

\* ------------------------------------------------------------------------
\* The HTTP endpoints over one dataset
\* ------------------------------------------------------------------------
\* One request is made of an endpoint of app.py, on a table with a column
\* of each semantic type.  probe keeps the request, the status of the
\* response and the outcome of the engine call behind it.

ColF == << "f" >>

ColD == << "d" >>

ColB == << "b" >>

\* A column whose name holds a double quote.
ColQ == << "q", "\"" >>

ColX == << "x" >>

OpEndsWith == << "e", "n", "d", "s", "_", "w", "i", "t", "h" >>

IsoDay == << "2", "0", "2", "4", "-", "0", "1", "-", "0", "2" >>

ApiSchema ==
    << << ColId, "BIGINT" >>, << ColG, "VARCHAR" >>, << ColF, "DOUBLE" >>,
       << ColD, "DATE" >>, << ColB, "BOOLEAN" >>, << ColQ, "VARCHAR" >> >>

ApiRow(i, g, f, d, b, q) ==
    [c \in {ColId, ColG, ColF, ColD, ColB, ColQ} |->
        CASE c = ColId -> i [] c = ColG -> g [] c = ColF -> f
          [] c = ColD -> d [] c = ColB -> b [] OTHER -> q]

\* The rows of the file, first row first.
ApiCells ==
    << ApiRow(IntV(1), StrV(<< "a", "b" >>), FloatV(15), DateV(IsoDay), BoolV(TRUE),
              StrV(<< "x" >>)),
       ApiRow(IntV(2), StrV(<< "B" >>), FloatV(20), DateV(<< "2", "0", "2", "4", "-", "0", "2", "-", "0", "1" >>), BoolV(FALSE), NoneV),
       ApiRow(NoneV, NoneV, NoneV, NoneV, NoneV, NoneV),
       ApiRow(IntV(1), StrV(<< "c", "A", "B" >>), FloatV(10), DateV(IsoDay), BoolV(TRUE),
              StrV(<< "x" >>)) >>

ApiTables ==
    {[cols |-> ApiSchema,
      rows |-> {[rowid |-> k - 1, cells |-> ApiCells[k]] : k \in 1..n}] :
        n \in {m \in 0..MaxRows : m <= Len(ApiCells)}}

\* The operators of a filter: those of the engine, one of a test, and texts
\* no type allows.
ApiOperators ==
    {OpEq, OpNe, OpGt, OpLt, OpGe, OpLe, OpContains, OpStartsWith, OpIsNull, OpIsNotNull,
     OpEndsWith, NotFoundText}

ApiValues ==
    {NoneV, IntV(1), FloatV(15), BoolV(TRUE), StrV(<< "1" >>), StrV(<< "1", ".", "5" >>),
     StrV(<< "a", "b", "c" >>), StrV(<< "b" >>), StrV(IsoDay), StrV(NotFoundText)}

ApiColumns == {ColId, ColG, ColF, ColD, ColB, ColQ, ColX, NotFoundText}

\* The filter lists of a request: every single filter, and lists of two.
ApiFilterLists ==
    {<< >>}
        \cup {<< Filter(c, op, v) >> : c \in ApiColumns, op \in ApiOperators, v \in ApiValues}
        \cup {<< Filter(ColId, OpGe, IntV(1)), Filter(ColG, OpContains, v) >> :
                 v \in {StrV(<< "b" >>), NoneV}}

ApiSortColumns == {NoneV, StrV(ColId), StrV(ColQ), StrV(ColX), StrV(NotFoundText)}

BadToken == << "!" >>

\* The cursors of a page request: none, a token that does not decode, and
\* the token get_page issues after the first row under the request's sort.
ApiCursors(sort_column, sort_direction) ==
    {NoCursor, BadToken,
     _encode_cursor(CursorPayload([rowid |-> 0, cells |-> ApiCells[1]], sort_column,
                                  SortDirOf(sort_direction)))}

ApiPageRequests ==
    {[page_size |-> 1, sort_column |-> NoneV, sort_direction |-> NoneV,
      filters |-> f, cursor |-> NoCursor] : f \in ApiFilterLists}
        \cup UNION {{[page_size |-> n, sort_column |-> c, sort_direction |-> d,
                      filters |-> f, cursor |-> cur] :
                        cur \in (IF c \in {NoneV, StrV(ColId), StrV(ColQ)}
                                 THEN ApiCursors(c, d) ELSE {NoCursor, BadToken}),
                        f \in {<< >>, << Filter(ColG, OpIsNotNull, NoneV) >>}} :
                     n \in 1..MaxPageSize, c \in ApiSortColumns, d \in {NoneV, DescWord}}

ApiExportRequests ==
    {[sort_column |-> c, sort_direction |-> NoneV, filters |-> f] :
        c \in {NoneV}, f \in ApiFilterLists}
        \cup {[sort_column |-> c, sort_direction |-> d, filters |-> << >>] :
                 c \in ApiSortColumns \cup {StrV(<< >>)}, d \in {NoneV, DescWord}}

Agg(op, column, alias) == [op |-> op, column |-> column, as |-> alias]

HavingItem(metric, operator, value) == [metric |-> metric, operator |-> operator, value |-> value]

SortItem(column, direction) == [column |-> column, direction |-> direction]

AliasN == << "n" >>

\* An alias with a double quote.
AliasQ == << "n", "\"", "n" >>

SumId == << "s", "u", "m", "_", "i", "d" >>

ApiAggregations ==
    {<< >>,
     << Agg(StrV(AggCount), StrV(Star), StrV(AliasN)) >>,
     << Agg(StrV(AggCount), StrV(Star), StrV(AliasQ)) >>,
     << Agg(StrV(AggCount), StrV(Star), StrV(NotFoundText)) >>,
     << Agg(StrV(AggSum), StrV(ColId), NoneV) >>,
     << Agg(StrV(AggCount), StrV(Star), StrV(AliasN)), Agg(StrV(AggAvg), StrV(ColF), StrV(<< " " >>)) >>,
     << Agg(StrV(AggSum), StrV(ColG), NoneV) >>,
     << Agg(StrV(AggMax), StrV(ColX), NoneV) >>,
     << Agg(StrV(AggMin), StrV(NotFoundText), NoneV) >>,
     << Agg(StrV(NotFoundText), StrV(ColId), NoneV) >>,
     << Agg(NoneV, StrV(ColId), NoneV) >>,
     << Agg(StrV(AggCount), NoneV, NoneV) >>}

ApiHaving ==
    {<< >>,
     << HavingItem(StrV(AliasN), StrV(OpGt), IntV(1)) >>,
     << HavingItem(StrV(AliasN), StrV(OpEq), FloatV(15)) >>,
     << HavingItem(StrV(AliasN), StrV(OpEq), StrV(<< "a", "b", "c" >>)) >>,
     << HavingItem(StrV(AliasN), StrV(OpEq), NoneV) >>,
     << HavingItem(StrV(AliasQ), StrV(OpLe), IntV(2)) >>,
     << HavingItem(StrV(SumId), StrV(OpGe), StrV(<< "1" >>)) >>,
     << HavingItem(StrV(AliasN), StrV(OpGe), IntV(1)),
        HavingItem(StrV(<< "a", "v", "g", "_", "f" >>), StrV(OpLt), StrV(<< "1", ".", "5" >>)) >>,
     << HavingItem(StrV(AliasN), StrV(OpContains), IntV(1)) >>,
     << HavingItem(StrV(AliasN), StrV(NotFoundText), IntV(1)) >>,
     << HavingItem(StrV(AliasN), NoneV, IntV(1)) >>,
     << HavingItem(StrV(ColId), StrV(OpEq), IntV(1)) >>,
     << HavingItem(StrV(NotFoundText), StrV(OpEq), IntV(1)) >>,
     << HavingItem(NoneV, StrV(OpEq), IntV(1)) >>}

\* The bodies of a table query: every filter list alone, and the
\* combinations of groupBy, aggregations, having, sort and limit.  A sort
\* names an alias or a grouped column, which the SQL engine accepts.
ApiTableQueries ==
    {[filters |-> f, groupBy |-> << >>, aggregations |-> << >>, having |-> << >>,
      sort |-> << >>, limit |-> 200] : f \in ApiFilterLists}
        \cup [filters : {<< >>, << Filter(ColId, OpGe, StrV(<< "1" >>)) >>},
              groupBy : {<< >>, << ColG >>, << ColQ, ColG >>, << ColX >>, << NotFoundText >>,
                         << << >> >>},
              aggregations : ApiAggregations,
              having : ApiHaving,
              sort : {<< >>, << SortItem(StrV(AliasN), DescWord) >>},
              limit : {200}]
        \cup [filters : {<< >>},
              groupBy : {<< >>, << ColG >>},
              aggregations : {<< >>, << Agg(StrV(AggCount), StrV(Star), StrV(AliasN)) >>},
              having : {<< >>},
              sort : {<< SortItem(StrV(ColG), NoneV) >>, << SortItem(StrV(ColX), NoneV) >>,
                      << SortItem(StrV(NotFoundText), NoneV) >>, << SortItem(NoneV, NoneV) >>},
              limit : {0, 1, 10000, 10001}]

\* The request made, the status of its response and the engine's outcome.
ApiProbe(kind, dataset_id, request, status, out) ==
    [kind |-> kind, dataset_id |-> dataset_id, request |-> request, status |-> status,
     out |-> out]

\* After load_file: one dataset in the registry, no request made yet.
ApiInit ==
    /\ datasets = [id \in {TheDataset} |-> TableName(id)]
    /\ \E tbl \in ApiTables : catalog = [t \in {TableName(TheDataset)} |-> tbl]
    /\ req = << >>
    /\ pc = "start"
    /\ pages = << >>
    /\ probe = NoProbe
    /\ EngineIdle
    /\ AppIdle

\* GET /api/datasets/{dataset_id}/schema
GetSchema ==
    /\ probe = NoProbe
    /\ \E id \in IdPool :
        \E out \in {get_schema(catalog, datasets, id)} :
            probe' = ApiProbe("schema", id, << >>, SchemaStatus(out), out)
    /\ UNCHANGED << datasets, catalog, req, pc, pages, engineVars, appVars >>

\* The outcome of a page call: the error of the response, the statements
\* executed and the rows of the page.
PageOutcome(resp, statements, tbl) ==
    [err |-> resp.err, head |-> resp.head, arg |-> resp.arg, statements |-> statements,
     rows |-> {row \in tbl.rows : \E k \in 1..Len(resp.rowids) : resp.rowids[k] = row.rowid}]

\* GET /api/datasets/{dataset_id}/page
GetPage ==
    /\ probe = NoProbe
    /\ \E id \in IdPool, r \in ApiPageRequests :
        \E resp \in {get_page(catalog, datasets, id, 0, r.page_size, r.sort_column,
                              r.sort_direction, r.filters, r.cursor)} :
            probe' = ApiProbe("page", id, r, PageStatus(resp),
                              PageOutcome(resp,
                                  PageStatements(catalog, datasets, id, 0, r.page_size,
                                                 r.sort_column, r.sort_direction, r.filters,
                                                 r.cursor),
                                  catalog[TableName(TheDataset)]))
    /\ UNCHANGED << datasets, catalog, req, pc, pages, engineVars, appVars >>

\* GET /api/datasets/{dataset_id}/profile/{column}
ProfileColumn ==
    /\ probe = NoProbe
    /\ \E id \in IdPool, column \in ApiColumns :
        \E out \in {profile_column(catalog, datasets, id, column)} :
            probe' = ApiProbe("profile", id, column, Status(out), out)
    /\ UNCHANGED << datasets, catalog, req, pc, pages, engineVars, appVars >>

\* DuckDBEngine.run_query by one caller: the view is created, the SQL
\* executed and the view dropped.
run_query(cat, registry, dataset_id, sql) ==
    IF _get_table(registry, dataset_id).err # "" THEN Failure(_get_table(registry, dataset_id))
    ELSE IF Execute(sql, cat, registry[dataset_id]).err # ""
    THEN Failure(Execute(sql, cat, registry[dataset_id]))
    ELSE Result(<< >>, {row \in cat[registry[dataset_id]].rows :
                           row.rowid \in Execute(sql, cat, registry[dataset_id]).val.rowids})

\* POST /api/datasets/{dataset_id}/query: a blank SQL text is refused before
\* the engine is called.
RunQuery ==
    /\ probe = NoProbe
    /\ \E id \in IdPool, sql \in SqlKinds \cup {"blank"} :
        \E out \in {IF sql = "blank" THEN Failure(RaiseMsg("HTTPException", "SQL query is empty", << >>))
                    ELSE run_query(catalog, datasets, id, sql)} :
            /\ probe' = ApiProbe("query", id, sql, IF sql = "blank" THEN 400 ELSE Status(out), out)
            /\ catalog' = IF sql = "blank" \/ id \notin DOMAIN datasets THEN catalog
                          ELSE ExecuteEffect(sql, catalog, datasets[id])
    /\ UNCHANGED << datasets, req, pc, pages, engineVars, appVars >>

\* POST /api/datasets/{dataset_id}/table-query
RunTableQuery ==
    /\ probe = NoProbe
    /\ \E id \in IdPool, body \in ApiTableQueries :
        \E out \in {run_table_query(catalog, datasets, id, body)} :
            probe' = ApiProbe("table-query", id, body, Status(out), out)
    /\ UNCHANGED << datasets, catalog, req, pc, pages, engineVars, appVars >>

\* GET /api/datasets/{dataset_id}/export
ExportDataset ==
    /\ probe = NoProbe
    /\ \E id \in IdPool, r \in ApiExportRequests :
        \E out \in {export_csv(catalog, datasets, id, r.sort_column, r.sort_direction,
                               r.filters)} :
            probe' = ApiProbe("export", id, r, Status(out), out)
    /\ UNCHANGED << datasets, catalog, req, pc, pages, engineVars, appVars >>

ApiNext ==
    GetSchema \/ GetPage \/ ProfileColumn \/ RunQuery \/ RunTableQuery \/ ExportDataset

ApiSpec == ApiInit /\ [][ApiNext]_vars

\* ------------------------------------------------------------------------
\* Statements about the status of a response
\* ------------------------------------------------------------------------

\* The request named a dataset of the registry.
Registered == probe.dataset_id \in DOMAIN datasets

\* C11: the status follows from the kind of error alone.  A request that
\* reaches the engine with a dataset id absent from the registry is answered
\* 404 on every endpoint, and a page, table-query or export request on a
\* registered dataset that the engine refuses with a validation error is
\* answered 400, whatever the texts of the request are.
C11_StatusByErrorKind ==
    /\ (/\ probe.kind \in {"schema", "page", "profile", "query", "table-query", "export"}
        /\ ~Registered
        /\ ~(probe.kind = "query" /\ probe.request = "blank"))
            => probe.status = 404
    /\ (/\ probe.kind \in {"page", "table-query", "export"}
        /\ Registered
        /\ probe.out.err = "ValueError")
            => probe.status = 400

\* An export of a registered dataset with a filter on the unknown column
\* named "not found" has been refused as an invalid filter column, and
\* answered 404.
C11_Witness ==
    /\ probe.kind = "export"
    /\ Registered
    /\ probe.request.filters = << Filter(NotFoundText, OpEq, IntV(1)) >>
    /\ probe.out.err = "ValueError"
    /\ probe.out.head = "Invalid filter column: "
    /\ probe.status = 404

\* The operators the filter compiler allows on a column of a semantic type.
AllowedOperators(app_type) ==
    CASE app_type = "string" -> {OpEq, OpNe, OpContains, OpStartsWith, OpIsNull, OpIsNotNull}
      [] app_type \in {"integer", "float"} ->
            {OpEq, OpNe, OpGt, OpLt, OpGe, OpLe, OpIsNull, OpIsNotNull}
      [] app_type = "date" -> {OpEq, OpGt, OpLt, OpGe, OpLe, OpIsNull, OpIsNotNull}
      [] OTHER -> {OpEq, OpNe, OpIsNull, OpIsNotNull}

\* The request is a page, an export or a table query of a registered dataset
\* that carries one filter on a column of the table and nothing else that
\* can fail: no sort, no cursor, no grouping.
OneFilterRequest ==
    /\ probe.kind \in {"page", "export", "table-query"}
    /\ Registered
    /\ Len(probe.request.filters) = 1
    /\ Get(probe.request.filters[1], KeyColumn).s
           \in DOMAIN _get_column_meta(catalog[datasets[probe.dataset_id]])
    /\ probe.kind \in {"page", "export"} => probe.request.sort_column = NoneV
    /\ probe.kind = "page" => probe.request.cursor = NoCursor
    /\ probe.kind = "table-query" =>
          /\ probe.request.groupBy = << >>
          /\ probe.request.aggregations = << >>
          /\ probe.request.having = << >>
          /\ probe.request.sort = << >>

TheFilter == probe.request.filters[1]

TheFilterColumn == Get(TheFilter, KeyColumn).s

TheFilterOperator == Get(TheFilter, KeyOperator).s

TheFilterType ==
    _get_column_meta(catalog[datasets[probe.dataset_id]])[TheFilterColumn].app_type

\* C12: on get_page, export_csv and run_table_query a filter whose operator
\* is outside the set its column's semantic type allows is refused with 400
\* and the message Unsupported operator, and an operator inside the set is
\* accepted when it needs no value or its value coerces.
C12_OperatorsByType ==
    OneFilterRequest =>
        IF TheFilterOperator \notin AllowedOperators(TheFilterType)
        THEN probe.status = 400 /\ probe.out.head = "Unsupported operator '"
        ELSE (\/ TheFilterOperator \in {OpIsNull, OpIsNotNull}
              \/ _coerce_value(Get(TheFilter, KeyValue), TheFilterType, TheFilterColumn,
                               TheFilterOperator).err = "")
                 => probe.status = 200

\* A table query with the operator "not found" on the string column has been
\* refused as an unsupported operator, and answered 404.
C12_Witness ==
    /\ OneFilterRequest
    /\ probe.kind = "table-query"
    /\ TheFilterColumn = ColG
    /\ TheFilterOperator = NotFoundText
    /\ probe.out.head = "Unsupported operator '"
    /\ probe.status = 404

\* text ends with suffix, letters compared without case.
EndsWithNoCase(text, suffix) ==
    /\ Len(suffix) <= Len(text)
    /\ LowerText(SubSeq(text, Len(text) - Len(suffix) + 1, Len(text))) = LowerText(suffix)

\* C13: a page request with a filter ends_with v on a string column is
\* answered 200, and every row of the page has in that column a text that
\* ends with v, letters compared without case.
C13_EndsWithIsAccepted ==
    (/\ OneFilterRequest
     /\ probe.kind = "page"
     /\ TheFilterType = "string"
     /\ TheFilterOperator = OpEndsWith
     /\ Get(TheFilter, KeyValue).t = "str")
        => /\ probe.status = 200
           /\ \A row \in probe.out.rows :
                 /\ row.cells[TheFilterColumn].t = "str"
                 /\ EndsWithNoCase(row.cells[TheFilterColumn].s, Get(TheFilter, KeyValue).s)

\* A page request with the filter g ends_with "b" has been refused as an
\* unsupported operator, with 400.
C13_Witness ==
    /\ OneFilterRequest
    /\ probe.kind = "page"
    /\ TheFilterColumn = ColG
    /\ TheFilterOperator = OpEndsWith
    /\ Get(TheFilter, KeyValue) = StrV(<< "b" >>)
    /\ probe.out.head = "Unsupported operator '"
    /\ probe.status = 400

\* The text of an integer: digits after an optional sign.
IsIntegerText(cs) ==
    /\ cs # << >>
    /\ AllDigits(IF Head(cs) \in {"-", "+"} THEN Tail(cs) ELSE cs)

\* The number a client means by an integer or by the text of one.
ClientInteger(v) ==
    IF v.t = "int" THEN v
    ELSE IntV(IF Head(v.s) = "-" THEN -TextToNat(Tail(v.s), 0)
              ELSE TextToNat(IF Head(v.s) = "+" THEN Tail(v.s) ELSE v.s, 0))

\* The rows of the table whose cell satisfies the comparison with a value.
RowsComparing(col, op, v) ==
    {row \in catalog[datasets[probe.dataset_id]].rows :
        SqlCmp(row.cells[col],
               CASE op = OpEq -> "=" [] op = OpNe -> "!=" [] op = OpGt -> ">"
                 [] op = OpLt -> "<" [] op = OpGe -> ">=" [] OTHER -> "<=",
               v)}

\* The request compares an integer column with a value that is an integer,
\* a number with a fraction, or a text.
IntegerComparison ==
    /\ OneFilterRequest
    /\ TheFilterType = "integer"
    /\ TheFilterOperator \in {OpEq, OpNe, OpGt, OpLt, OpGe, OpLe}
    /\ \/ Get(TheFilter, KeyValue).t \in {"int", "str"}
       \/ Get(TheFilter, KeyValue).t = "float" /\ Get(TheFilter, KeyValue).i % 10 # 0

\* C14: the value compared with an integer column or metric is coerced
\* strictly.  A value that is neither an integer nor the text of one is
\* refused with 400 and the message Invalid integer value; otherwise every
\* statement binds the number the client sent, and the rows selected are
\* those that satisfy the comparison with that number.  A having value with
\* a fraction on a count is not accepted.
C14_IntegerCoercionIsStrict ==
    /\ IntegerComparison =>
          IF \/ Get(TheFilter, KeyValue).t = "float"
             \/ Get(TheFilter, KeyValue).t = "str" /\ ~IsIntegerText(Get(TheFilter, KeyValue).s)
          THEN /\ probe.status = 400
               /\ probe.out.head = "Invalid integer value for column '"
          ELSE /\ probe.status = 200
               /\ \A k \in 1..Len(probe.out.statements) :
                     probe.out.statements[k].params # << >> =>
                         probe.out.statements[k].params[1] = ClientInteger(Get(TheFilter, KeyValue))
               /\ probe.out.rows \subseteq
                     RowsComparing(TheFilterColumn, TheFilterOperator,
                                   ClientInteger(Get(TheFilter, KeyValue)))
               /\ probe.kind = "export" =>
                     probe.out.rows = RowsComparing(TheFilterColumn, TheFilterOperator,
                                                    ClientInteger(Get(TheFilter, KeyValue)))
    /\ (/\ probe.kind = "table-query"
        /\ Registered
        /\ \E k \in 1..Len(probe.request.having), j \in 1..Len(probe.request.aggregations) :
              /\ probe.request.aggregations[j].op = StrV(AggCount)
              /\ probe.request.aggregations[j].as = probe.request.having[k].metric
              /\ probe.request.having[k].value.t = "float"
              /\ probe.request.having[k].value.i % 10 # 0)
            => probe.status # 200

\* An export with the filter id = 1.5 has been answered 200: the statement
\* bound 1, and the row whose id is 1 was selected.
C14_Witness ==
    /\ IntegerComparison
    /\ probe.kind = "export"
    /\ TheFilterColumn = ColId
    /\ TheFilterOperator = OpEq
    /\ Get(TheFilter, KeyValue) = FloatV(15)
    /\ probe.status = 200
    /\ probe.out.statements[1].params = << IntV(1) >>
    /\ \E row \in probe.out.rows : row.cells[ColId] = IntV(1)

\* ------------------------------------------------------------------------
\* Statements about the SQL text
\* ------------------------------------------------------------------------

\* The name a quoted identifier stands for: the text between the outer
\* quotes with each pair of quotes read as one.  ok is FALSE when the text
\* is not a quoted identifier: a quote stands alone inside it.
RECURSIVE Unquoted(_)
Unquoted(inner) ==
    IF inner = << >> THEN [ok |-> TRUE, name |-> << >>]
    ELSE IF Head(inner) # "\""
    THEN [ok |-> Unquoted(Tail(inner)).ok,
          name |-> << Head(inner) >> \o Unquoted(Tail(inner)).name]
    ELSE IF Len(inner) >= 2 /\ inner[2] = "\""
    THEN [ok |-> Unquoted(Tail(Tail(inner))).ok,
          name |-> << "\"" >> \o Unquoted(Tail(Tail(inner))).name]
    ELSE [ok |-> FALSE, name |-> << >>]

\* txt is the identifier name in double quotes, its own quotes doubled.
IsQuoted(txt, name) ==
    /\ Len(txt) >= 2
    /\ txt[1] = "\"" /\ txt[Len(txt)] = "\""
    /\ Unquoted(SubSeq(txt, 2, Len(txt) - 1)).ok
    /\ Unquoted(SubSeq(txt, 2, Len(txt) - 1)).name = name

\* The pieces of a statement that are texts of the request.
RequestPieces(st) == {st.sql[k] : k \in {j \in 1..Len(st.sql) : st.sql[j].from = "request"}}

\* The number of ? in the text of a statement.
QuestionMarks(st) == Cardinality({k \in 1..Len(st.sql) : st.sql[k].lit = "?"})

\* The columns of the dataset the request names.
Registry == DOMAIN _get_column_meta(catalog[datasets[probe.dataset_id]])

\* The output aliases of the aggregations of a table query: the text given
\* as "as", or <op>_<column> with * written all.
RequestAliases ==
    IF probe.kind # "table-query" THEN {}
    ELSE {safe_alias(probe.request.aggregations[k]) :
             k \in {j \in 1..Len(probe.request.aggregations) :
                       /\ probe.request.aggregations[j].op.t = "str"
                       /\ probe.request.aggregations[j].column.t = "str"}}

\* The call composed SQL: a page, export or table-query call that reached
\* conn.execute.
ComposedSql ==
    /\ probe.kind \in {"page", "export", "table-query"}
    /\ probe.out.statements # << >>

\* The parameters follow the order of the ? of the text: the limit is last
\* and, under the two filters id >= 1 and g contains b, the filter values
\* come first, in the order of the filters.
ParamsInOrder(st) ==
    /\ QuestionMarks(st) = Len(st.params)
    /\ (st.params # << >> /\ st.sql[Len(st.sql) - 1].lit = " LIMIT ") =>
          st.params[Len(st.params)].t = "int"
    /\ (Len(probe.request.filters) = 2 /\ st.params # << >>) =>
          /\ Len(st.params) >= 2
          /\ st.params[1] = IntV(1)
          /\ st.params[2] = StrV(<< "%", "b", "%" >>)

\* C15 as stated: in every statement of get_page, export_csv and
\* run_table_query each text of the request is the quoted name of a column
\* of the registry, and the ? are as many as the parameters, in order.
C15_OnlyRegistryColumnsInSql ==
    ComposedSql =>
        \A k \in 1..Len(probe.out.statements) :
            /\ \A piece \in RequestPieces(probe.out.statements[k]) :
                  \E c \in Registry : IsQuoted(piece.txt, c)
            /\ ParamsInOrder(probe.out.statements[k])

\* C15: in every statement of get_page, export_csv and run_table_query each
\* text of the request is the quoted name of a column of the registry, the
\* quoted output alias of an aggregation of the request, or one of the six
\* HAVING operators; the ? are as many as the parameters, in order.
C15_OnlyQuotedNamesInSql ==
    ComposedSql =>
        \A k \in 1..Len(probe.out.statements) :
            /\ \A piece \in RequestPieces(probe.out.statements[k]) :
                  \/ \E c \in Registry : IsQuoted(piece.txt, c)
                  \/ \E a \in RequestAliases : IsQuoted(piece.txt, a)
                  \/ piece.txt \in {OpEq, OpNe, OpGt, OpLt, OpGe, OpLe}
            /\ ParamsInOrder(probe.out.statements[k])

\* A table query grouped by the column q" with a count named n"n and a
\* having on it was executed: its text holds both names with the quote
\* doubled, and the operator <=.
C15_Witness ==
    /\ ComposedSql
    /\ probe.kind = "table-query"
    /\ probe.status = 200
    /\ \E piece \in RequestPieces(probe.out.statements[1]) :
          piece.txt = << "\"", "q", "\"", "\"", "\"" >>
    /\ \E piece \in RequestPieces(probe.out.statements[1]) :
          piece.txt = << "\"", "n", "\"", "\"", "n", "\"" >>
    /\ \E piece \in RequestPieces(probe.out.statements[1]) : piece.txt = OpLe
    /\ Len(probe.out.statements[1].params) = 2

\* ------------------------------------------------------------------------
\* Statements about HAVING
\* ------------------------------------------------------------------------

\* An aggregation the table query accepts.
ValidAggregation(agg) ==
    /\ agg.op.t = "str" /\ agg.op.s \in {AggCount, AggSum, AggAvg, AggMin, AggMax}
    /\ agg.column.t = "str"
    /\ agg.column.s = Star \/ agg.column.s \in Registry
    /\ (agg.op.s \in {AggSum, AggAvg} /\ agg.column.s # Star) =>
          _get_column_meta(catalog[datasets[probe.dataset_id]])[agg.column.s].app_type
              \in {"integer", "float"}

\* The request is a table query with a having list, on a registered dataset,
\* whose filters, groupBy columns, aggregations, sort and limit are valid.
HavingRequest ==
    /\ probe.kind = "table-query"
    /\ Registered
    /\ probe.request.having # << >>
    /\ probe.request.sort = << >>
    /\ probe.request.limit = 200
    /\ probe.request.filters \in {<< >>, << Filter(ColId, OpGe, StrV(<< "1" >>)) >>}
    /\ \A k \in 1..Len(probe.request.groupBy) : probe.request.groupBy[k] \in Registry
    /\ \A k \in 1..Len(probe.request.aggregations) :
          ValidAggregation(probe.request.aggregations[k])

\* The having list is one the table query may accept: aggregations and
\* groupBy are present, every metric is the alias of an aggregation and
\* every operator a comparison.
HavingIsWellFormed ==
    /\ probe.request.aggregations # << >>
    /\ probe.request.groupBy # << >>
    /\ \A k \in 1..Len(probe.request.having) :
          /\ probe.request.having[k].metric.t = "str"
          /\ probe.request.having[k].metric.s \in RequestAliases
          /\ probe.request.having[k].operator.t = "str"
          /\ probe.request.having[k].operator.s \in {OpEq, OpNe, OpGt, OpLt, OpGe, OpLe}

\* The statement holds the term "<alias>" <op> ? of a having item after the
\* word HAVING.
HasHavingTerm(st, item) ==
    \E h \in 1..Len(st.sql), k \in 1..Len(st.sql) :
        /\ h < k
        /\ st.sql[h].lit = "HAVING "
        /\ k + 4 <= Len(st.sql)
        /\ IsQuoted(st.sql[k].txt, item.metric.s)
        /\ st.sql[k + 1].lit = " "
        /\ st.sql[k + 2].txt = item.operator.s
        /\ st.sql[k + 3].lit = " "
        /\ st.sql[k + 4].lit = "?"

\* The number a client means by a having value that is not a float.
ClientNumber(v) ==
    IF v.t = "str" /\ ~IsIntegerText(v.s) THEN PyFloat(v).val
    ELSE IF v.t = "str" THEN ClientInteger(v) ELSE v

\* C20: a table query with a having list is accepted only when aggregations
\* and groupBy are present, every metric is the output alias of an
\* aggregation of the request and every operator one of the six
\* comparisons; otherwise it is answered 400 and no statement is executed.
\* An accepted one has in its SQL one term HAVING "<alias>" <op> ? per item,
\* and binds the values after the filter parameters and before the limit.
C20_HavingIsValidated ==
    HavingRequest =>
        /\ ~HavingIsWellFormed => (probe.status = 400 /\ probe.out.statements = << >>)
        /\ probe.status = 200 =>
              /\ HavingIsWellFormed
              /\ Len(probe.out.statements) = 1
              /\ \A k \in 1..Len(probe.request.having) :
                    HasHavingTerm(probe.out.statements[1], probe.request.having[k])
              /\ Len(probe.out.statements[1].params)
                     = Len(probe.request.filters) + Len(probe.request.having) + 1
              /\ probe.out.statements[1].params[Len(probe.out.statements[1].params)]
                     = IntV(probe.request.limit)
              /\ \A k \in 1..Len(probe.request.having) :
                    probe.request.having[k].value.t # "float" =>
                        PyEq(probe.out.statements[1].params[Len(probe.request.filters) + k],
                             ClientNumber(probe.request.having[k].value))

\* A table query grouped by g with a count named n and a having on the
\* metric "not found" has been refused as an invalid metric, and answered
\* 404.
C20_Witness ==
    /\ HavingRequest
    /\ probe.request.groupBy = << ColG >>
    /\ probe.request.aggregations = << Agg(StrV(AggCount), StrV(Star), StrV(AliasN)) >>
    /\ probe.request.having = << HavingItem(StrV(NotFoundText), StrV(OpEq), IntV(1)) >>
    /\ probe.out.head = "Invalid HAVING metric: "
    /\ probe.out.statements = << >>
    /\ probe.status = 404

\* ------------------------------------------------------------------------
\* app.py: uploads, discovery and imports
\* ------------------------------------------------------------------------

\* The most requests made to the upload, discover and import endpoints.
MaxRequests == 3

SuffixCsv == << ".", "c", "s", "v" >>

SuffixParquet == << ".", "p", "a", "r", "q", "u", "e", "t" >>

SuffixXlsx == << ".", "x", "l", "s", "x" >>

SuffixSqlite == << ".", "s", "q", "l", "i", "t", "e" >>

SuffixDb == << ".", "d", "b" >>

\* SUPPORTED_UPLOAD_SUFFIX.get(suffix): "" stands for None.
SUPPORTED_UPLOAD_SUFFIX(suffix) ==
    CASE suffix = SuffixCsv -> "csv"
      [] suffix = SuffixParquet -> "parquet"
      [] suffix = SuffixXlsx -> "excel"
      [] suffix = SuffixSqlite -> "sqlite"
      [] suffix = SuffixDb -> "sqlite"
      [] OTHER -> ""

\* Path(p).name: the last part of the path, where empty parts and parts
\* "." are no parts; "" when there is none.
RECURSIVE LastPart(_, _, _)
LastPart(cs, cur, last) ==
    IF cs = << >> THEN (IF cur \in {<< >>, << "." >>} THEN last ELSE cur)
    ELSE IF Head(cs) = "/"
         THEN LastPart(Tail(cs), << >>, IF cur \in {<< >>, << "." >>} THEN last ELSE cur)
         ELSE LastPart(Tail(cs), Append(cur, Head(cs)), last)

PathName(p) == LastPart(p, << >>, << >>)

\* name.rfind("."), counted from 1; 0 when there is no dot.
RFindDot(name) ==
    IF \E i \in 1..Len(name) : name[i] = "."
    THEN CHOOSE i \in 1..Len(name) :
             name[i] = "." /\ \A j \in (i + 1)..Len(name) : name[j] # "."
    ELSE 0

\* Path(name).suffix: from the last dot on, unless that dot is the first or
\* the last character of the name.
PathSuffix(name) ==
    IF 1 < RFindDot(name) /\ RFindDot(name) < Len(name)
    THEN SubSeq(name, RFindDot(name), Len(name))
    ELSE << >>

\* Path(name).stem
PathStem(name) ==
    IF 1 < RFindDot(name) /\ RFindDot(name) < Len(name)
    THEN SubSeq(name, 1, RFindDot(name) - 1)
    ELSE name

\* raise HTTPException(status, detail)
HTTPException(status, detail) == [status |-> status, detail |-> detail]

\* The file _store_upload_file has checked: its name, suffix, format and
\* the path DATA_DIR / "<uuid>_<name>" it is saved under.
StoredUpload(safe_name, suffix, file_format, uuid) ==
    [status |-> 200, detail |-> "", safe_name |-> safe_name, suffix |-> suffix,
     file_format |-> file_format, save_path |-> << uuid, safe_name >>]

UnsafeNames == {<< >>, << "." >>, << ".", "." >>}

\* The filename check without the comparison with the basename.
MutStoreAnyPath(filename, uuid) ==
    IF filename = << >> THEN HTTPException(400, "No file provided")
    ELSE IF PathName(filename) \in UnsafeNames
    THEN HTTPException(400, "Invalid filename")
    ELSE IF SUPPORTED_UPLOAD_SUFFIX(LowerText(PathSuffix(PathName(filename)))) = ""
    THEN HTTPException(400, "Unsupported file format: ")
    ELSE StoredUpload(PathName(filename), LowerText(PathSuffix(PathName(filename))),
                      SUPPORTED_UPLOAD_SUFFIX(LowerText(PathSuffix(PathName(filename)))),
                      uuid)

\* _store_upload_file, up to the write of the file: uuid is the value
\* uuid4() returns.
_store_upload_file(filename, uuid) ==
    IF filename = << >> THEN HTTPException(400, "No file provided")
    ELSE IF PathName(filename) # filename \/ PathName(filename) \in UnsafeNames
    THEN HTTPException(400, "Invalid filename")
    ELSE IF SUPPORTED_UPLOAD_SUFFIX(LowerText(PathSuffix(PathName(filename)))) = ""
    THEN HTTPException(400, "Unsupported file format: ")
    ELSE StoredUpload(PathName(filename), LowerText(PathSuffix(PathName(filename))),
                      SUPPORTED_UPLOAD_SUFFIX(LowerText(PathSuffix(PathName(filename)))),
                      uuid)

\* save_path.write_bytes(content)
WriteBytes(dir, save_path, content) ==
    [p \in DOMAIN dir \cup {save_path} |-> IF p = save_path THEN content ELSE dir[p]]

\* The parameters of DuckDBEngine.load_file, self aside.
load_file_parameters == {"path", "name"}

\* What a call of load_file leaves: the error raised, the tables, the
\* registry and the dataset id.
Loaded(err, cat, registry, id) ==
    [err |-> err, catalog |-> cat, datasets |-> registry, id |-> id]

LoadRegistered(cat, registry, id, made) ==
    IF made.err # "" THEN Loaded(made.err, cat, registry, id)
    ELSE Loaded("", made.val,
                [d \in DOMAIN registry \cup {id} |->
                    IF d = id THEN TableName(id) ELSE registry[d]],
                id)

\* DuckDBEngine.load_file(path, name): id is uuid4().hex[:12], file the
\* rows read_csv_auto reads at the path.
load_file(cat, registry, id, file) ==
    LoadRegistered(cat, registry, id, CreateTable(cat, TableName(id), FileTable(file)))

\* A call engine.load_file(path, name, **keywords): a keyword that is no
\* parameter of the method is a TypeError, raised before the body runs.
CallLoadFile(cat, registry, keywords, id, file) ==
    IF ~(keywords \subseteq load_file_parameters)
    THEN Loaded("TypeError", cat, registry, id)
    ELSE load_file(cat, registry, id, file)

\* The status of an exception that leaves an upload or import handler:
\* ValueError and duckdb.Error are answered 400, any other is a 500.
LoadStatus(err) ==
    IF err = "" THEN 200
    ELSE IF err \in {"ValueError", "duckdb.Error"} THEN 400
    ELSE 500

\* The detail of the response to such an exception.
LoadDetail(err, detail) ==
    IF LoadStatus(err) = 400 THEN detail ELSE "Internal Server Error"

\* The names of the entities of the uploaded files.
EntData == << "d", "a", "t", "a" >>

EntMembers == << "m", "e", "m", "b", "e", "r", "s" >>

EntTeams == << "t", "e", "a", "m", "s" >>

EntGhost == << "g", "h", "o", "s", "t" >>

Entity(name, rows) == [name |-> name, rows |-> rows]

\* The content of a file of one table: two rows.
OneTable ==
    << Entity(EntData, << Row(IntV(1), StrV(<< "a" >>)), Row(IntV(2), StrV(<< "b" >>)) >>) >>

\* The content of a file of the tables members (two rows) and teams (one).
TwoTables ==
    << Entity(EntMembers, << Row(IntV(1), StrV(<< "a" >>)), Row(IntV(2), StrV(<< "b" >>)) >>),
       Entity(EntTeams, << Row(IntV(1), NoneV) >>) >>

\* The filenames uploaded.
Filenames ==
    {<< "a", ".", "c", "s", "v" >>, << "a", ".", "C", "S", "V" >>,
     << "a", ".", "p", "a", "r", "q", "u", "e", "t" >>, << "a", ".", "x", "l", "s", "x" >>,
     << "a", ".", "s", "q", "l", "i", "t", "e" >>, << "a", ".", "d", "b" >>,
     << "a", ".", "t", "x", "t" >>, << ".", "c", "s", "v" >>,
     << >>, << "." >>, << ".", "." >>,
     << ".", ".", "/", "a", ".", "c", "s", "v" >>, << "a", ".", "c", "s", "v", "/" >>}

\* The uploads: a file named as a workbook or a database holds the two
\* tables, any other the one.
UploadRequests ==
    {[filename |-> f,
      content |-> IF LowerText(PathSuffix(PathName(f))) \in {SuffixXlsx, SuffixSqlite, SuffixDb}
                  THEN TwoTables ELSE OneTable] : f \in Filenames}

\* The rows a reader of one table finds in a file, and those of an entity.
DataRows(content) == content[1].rows

EntityRows(content, entity) ==
    IF \E k \in 1..Len(content) : content[k].name = entity
    THEN content[CHOOSE k \in 1..Len(content) : content[k].name = entity].rows
    ELSE << >>

\* engine.discover_file_entities(path, file_format): the entity "data" of a
\* CSV or Parquet file, the tables of a SQLite file, the sheets of an Excel
\* file.
discover_file_entities(content, file_format) ==
    IF file_format \in {"csv", "parquet"} THEN << EntData >>
    ELSE [k \in 1..Len(content) |-> content[k].name]

\* What a handler leaves: the status and detail of the response, its body,
\* the tables, the registry, the data directory, the import sessions and
\* the number of uuid4() values drawn.
Answer(status, detail, out, cat, registry, dir, sessions, drawn) ==
    [status |-> status, detail |-> detail, out |-> out, catalog |-> cat,
     datasets |-> registry, DATA_DIR |-> dir, IMPORT_SESSIONS |-> sessions,
     drawn |-> drawn]

\* The entry of a loaded dataset in a response.
DatasetOut(id, name, schema) ==
    [id |-> id, name |-> name, rowCount |-> schema.rowCount, columns |-> schema.columns]

\* upload_dataset, after engine.load_file(str(save_path), safe_name,
\* file_format=file_format).
UploadLoaded(dir, sessions, stored, loaded) ==
    IF loaded.err # ""
    THEN Answer(LoadStatus(loaded.err), LoadDetail(loaded.err, "Failed to load file: "),
                NoneV, loaded.catalog,
                loaded.datasets, dir, sessions, 1)
    ELSE Answer(200, "",
                DatasetOut(loaded.id, stored.safe_name,
                           get_schema(loaded.catalog, loaded.datasets, loaded.id).val),
                loaded.catalog, loaded.datasets, dir, sessions, 1)

\* upload_dataset, after _store_upload_file.
UploadStored(cat, registry, dir, sessions, request, id, stored) ==
    IF stored.status # 200
    THEN Answer(stored.status, stored.detail, NoneV, cat, registry, dir, sessions, 0)
    ELSE IF stored.file_format \notin {"csv", "parquet"}
    THEN Answer(400, "Use /api/datasets/discover and /api/datasets/import for multi-entity formats",
                NoneV, cat, registry, WriteBytes(dir, stored.save_path, request.content),
                sessions, 1)
    ELSE UploadLoaded(WriteBytes(dir, stored.save_path, request.content), sessions, stored,
                      CallLoadFile(cat, registry, {"file_format"}, id,
                                   DataRows(request.content)))

\* POST /api/datasets/upload: uuid is the value of uuid4() for the file
\* name, id the dataset id load_file draws.
upload_dataset(cat, registry, dir, sessions, request, uuid, id) ==
    UploadStored(cat, registry, dir, sessions, request, id,
                 _store_upload_file(request.filename, uuid))

Session(path, name, format, entities) ==
    [path |-> path, name |-> name, format |-> format, entities |-> entities]

DiscoverOut(import_id, stored, entities) ==
    [importId |-> import_id, name |-> stored.safe_name, format |-> stored.file_format,
     entities |-> entities,
     requiresSelection |-> stored.file_format \in {"excel", "sqlite"}]

\* discover_dataset, after _store_upload_file.
DiscoverStored(cat, registry, dir, sessions, request, import_id, stored) ==
    IF stored.status # 200
    THEN Answer(stored.status, stored.detail, NoneV, cat, registry, dir, sessions, 0)
    ELSE Answer(200, "",
                DiscoverOut(import_id, stored,
                            discover_file_entities(request.content, stored.file_format)),
                cat, registry, WriteBytes(dir, stored.save_path, request.content),
                [i \in DOMAIN sessions \cup {import_id} |->
                    IF i = import_id
                    THEN Session(stored.save_path, stored.safe_name, stored.file_format,
                                 discover_file_entities(request.content, stored.file_format))
                    ELSE sessions[i]],
                2)

\* POST /api/datasets/discover: uuid and import_id are the values of the
\* two uuid4() calls.
discover_dataset(cat, registry, dir, sessions, request, uuid, import_id) ==
    DiscoverStored(cat, registry, dir, sessions, request, import_id,
                   _store_upload_file(request.filename, uuid))

\* The body of an import request.
ImportRequest(importId, selectedEntities, importMode, datasetNameMode) ==
    [importId |-> importId, selectedEntities |-> selectedEntities,
     importMode |-> importMode, datasetNameMode |-> datasetNameMode]

Items(s) == {s[k] : k \in 1..Len(s)}

IsUnknown(available, e) == e \notin Items(available)

\* No selected entity is taken for unknown.
MutNothingUnknown(selected, available) == << >>

\* unknown = [e for e in selected_entities if e not in available_entities]
UnknownEntities(selected, available) ==
    SelectSeq(selected, LAMBDA e : IsUnknown(available, e))

\* selected_entities of import_dataset
SelectedEntities(session, body) ==
    IF session.format \in {"csv", "parquet"} THEN << EntData >>
    ELSE IF body.importMode = "all" THEN session.entities
    ELSE body.selectedEntities

\* dataset_name of import_dataset
DatasetName(session, body, entity) ==
    IF session.format \in {"csv", "parquet"} THEN session.name
    ELSE IF body.datasetNameMode = "entity_only" THEN entity
    ELSE PathStem(session.name) \o << "_" >> \o entity

\* The keywords of the two calls of engine.load_file in import_dataset.
ImportKeywords(file_format) ==
    IF file_format \in {"csv", "parquet"} THEN {"file_format"}
    ELSE {"file_format", "entity"}

\* The rows load_file is to read for an entity of a session's file.
ImportRows(content, file_format, entity) ==
    IF file_format \in {"csv", "parquet"} THEN DataRows(content)
    ELSE EntityRows(content, entity)

\* What the loop of import_dataset leaves: the error raised, the tables,
\* the registry and the datasets imported so far.
Imported(err, cat, registry, imported) ==
    [err |-> err, catalog |-> cat, datasets |-> registry, imported |-> imported]

RECURSIVE ImportEntities(_, _, _, _, _, _, _, _)
RECURSIVE ImportLoaded(_, _, _, _, _, _, _)

\* for entity in selected_entities: ... engine.load_file(...); ids are the
\* dataset ids the calls of load_file draw.
ImportEntities(cat, registry, content, session, body, entities, ids, imported) ==
    IF entities = << >> THEN Imported("", cat, registry, imported)
    ELSE ImportLoaded(content, session, body, entities, ids, imported,
                      CallLoadFile(cat, registry, ImportKeywords(session.format), Head(ids),
                                   ImportRows(content, session.format, Head(entities))))

\* The loop after a call of load_file: schema = engine.get_schema(dataset_id);
\* imported.append(...)
ImportLoaded(content, session, body, entities, ids, imported, loaded) ==
    IF loaded.err # ""
    THEN Imported(loaded.err, loaded.catalog, loaded.datasets, imported)
    ELSE ImportEntities(loaded.catalog, loaded.datasets, content, session, body,
                        Tail(entities), Tail(ids),
                        Append(imported,
                               DatasetOut(loaded.id, DatasetName(session, body, Head(entities)),
                                          get_schema(loaded.catalog, loaded.datasets,
                                                     loaded.id).val)))

\* The session removed whether or not the loop has failed.
MutPopOnFailure(dir, sessions, body, done) ==
    Answer(IF done.err # "" THEN LoadStatus(done.err) ELSE 200, "",
           IF done.err # "" THEN NoneV
           ELSE [importId |-> body.importId, datasets |-> done.imported],
           done.catalog, done.datasets, dir,
           [i \in DOMAIN sessions \ {body.importId} |-> sessions[i]], 0)

\* import_dataset, after the loop: IMPORT_SESSIONS.pop(body.importId, None)
ImportDone(dir, sessions, body, done) ==
    IF done.err # ""
    THEN Answer(LoadStatus(done.err),
                LoadDetail(done.err, "Failed to import dataset entities: "), NoneV,
                done.catalog, done.datasets, dir, sessions, 0)
    ELSE Answer(200, "", [importId |-> body.importId, datasets |-> done.imported],
                done.catalog, done.datasets, dir,
                [i \in DOMAIN sessions \ {body.importId} |-> sessions[i]], 0)

\* import_dataset, after the session is found.
ImportSession(cat, registry, dir, sessions, body, ids, session) ==
    IF session.format \notin {"csv", "parquet"} /\ SelectedEntities(session, body) = << >>
    THEN Answer(400, "No entities selected for import", NoneV, cat, registry, dir,
                sessions, 0)
    ELSE IF /\ session.format \notin {"csv", "parquet"}
            /\ UnknownEntities(SelectedEntities(session, body), session.entities) # << >>
    THEN Answer(400, "Unknown entities selected: ", NoneV, cat, registry, dir, sessions, 0)
    ELSE ImportDone(dir, sessions, body,
                    ImportEntities(cat, registry, dir[session.path], session, body,
                                   SelectedEntities(session, body), ids, << >>))

\* POST /api/datasets/import
import_dataset(cat, registry, dir, sessions, body, ids) ==
    IF body.importId \notin DOMAIN sessions
    THEN Answer(404, "Import session not found", NoneV, cat, registry, dir, sessions, 0)
    ELSE ImportSession(cat, registry, dir, sessions, body, ids, sessions[body.importId])

\* The selections of the import requests.
ImportSelections ==
    {<< >>, << EntMembers >>, << EntMembers, EntTeams >>, << EntMembers, EntGhost >>,
     << EntGhost >>}

\* The dataset ids two calls of load_file draw.
IdDraws == {<< x, y >> : x \in IdPool, y \in IdPool}

IngestProbe(kind, request, answer) ==
    [kind |-> kind, request |-> request, status |-> answer.status,
     detail |-> answer.detail, out |-> answer.out]

\* The handler's answer becomes the state of the application.
Answered(kind, request, answer) ==
    /\ probe' = IngestProbe(kind, request, answer)
    /\ catalog' = answer.catalog
    /\ datasets' = answer.datasets
    /\ DATA_DIR' = answer.DATA_DIR
    /\ IMPORT_SESSIONS' = answer.IMPORT_SESSIONS
    /\ uuids' = uuids + answer.drawn
    /\ ops' = ops + 1
    /\ UNCHANGED << _query_lock, view, threads, firstPage, req, pc, pages, cellVars >>

\* The application after start: no dataset, no session, no file.
IngestInit ==
    /\ datasets = << >>
    /\ catalog = << >>
    /\ EngineIdle
    /\ AppIdle
    /\ req = << >>
    /\ pc = "start"
    /\ pages = << >>
    /\ probe = NoProbe

\* POST /api/datasets/upload
Upload ==
    /\ ops < MaxRequests
    /\ \E request \in UploadRequests, id \in IdPool :
           Answered("upload", request,
                    upload_dataset(catalog, datasets, DATA_DIR, IMPORT_SESSIONS, request,
                                   uuids + 1, id))

\* POST /api/datasets/discover
Discover ==
    /\ ops < MaxRequests
    /\ \E request \in UploadRequests :
           Answered("discover", request,
                    discover_dataset(catalog, datasets, DATA_DIR, IMPORT_SESSIONS, request,
                                     uuids + 1, uuids + 2))

\* The import ids of the requests: those of the sessions, that of the
\* import request before, and one (0) never drawn.
ImportIds ==
    DOMAIN IMPORT_SESSIONS \cup {0}
        \cup (IF probe.kind = "import" THEN {probe.request.importId} ELSE {})

\* POST /api/datasets/import
Import ==
    /\ ops < MaxRequests
    /\ \E importId \in ImportIds, selected \in ImportSelections,
          importMode \in {"selected", "all"},
          datasetNameMode \in {"filename_entity", "entity_only"}, ids \in IdDraws :
           Answered("import",
                    ImportRequest(importId, selected, importMode, datasetNameMode),
                    import_dataset(catalog, datasets, DATA_DIR, IMPORT_SESSIONS,
                                   ImportRequest(importId, selected, importMode,
                                                 datasetNameMode),
                                   ids))

\* engine.load_file(path, name), as the tests call it.
LoadFile ==
    /\ ops < MaxRequests
    /\ \E id \in IdPool, file \in Files :
        \E loaded \in {load_file(catalog, datasets, id, file)} :
           /\ probe' = [kind |-> "load_file", request |-> file,
                        status |-> LoadStatus(loaded.err), detail |-> "",
                        out |-> StrV(<< id >>)]
           /\ catalog' = loaded.catalog
           /\ datasets' = loaded.datasets
    /\ ops' = ops + 1
    /\ UNCHANGED << DATA_DIR, IMPORT_SESSIONS, uuids, _query_lock, view, threads,
                    firstPage, req, pc, pages, cellVars >>

IngestNext == Upload \/ Discover \/ Import \/ LoadFile

IngestSpec == IngestInit /\ [][IngestNext]_vars

\* ------------------------------------------------------------------------
\* C19: unsafe filenames and unsupported suffixes
\* ------------------------------------------------------------------------

\* The text after the last "/" of a filename.
RECURSIVE Basename(_)
Basename(f) ==
    IF \A k \in 1..Len(f) : f[k] # "/" THEN f
    ELSE Basename(Tail(f))

\* The suffix of a name: the text from its last dot on, "" when the name
\* has no dot or only a leading one.
RECURSIVE SuffixFrom(_, _)
SuffixFrom(name, k) ==
    IF k <= 1 THEN << >>
    ELSE IF name[k] = "." THEN SubSeq(name, k, Len(name))
    ELSE SuffixFrom(name, k - 1)

Suffix(name) == SuffixFrom(name, Len(name))

SupportedSuffixes == {SuffixCsv, SuffixParquet, SuffixXlsx, SuffixSqlite, SuffixDb}

\* The step is a request to upload or discover.
StoreStep == ops' = ops + 1 /\ probe'.kind \in {"upload", "discover"}

\* The request of the step is answered 400 and leaves no file, no dataset
\* and no session.
RejectedUnstored ==
    /\ probe'.status = 400
    /\ DATA_DIR' = DATA_DIR
    /\ datasets' = datasets
    /\ IMPORT_SESSIONS' = IMPORT_SESSIONS

UnsafeFilename(f) == Basename(f) # f \/ f \in {<< >>, << "." >>, << ".", "." >>}

\* C19 as stated: an upload or discover request whose filename differs from
\* its basename, or is "", "." or "..", or whose suffix is not one of .csv,
\* .parquet, .xlsx, .sqlite, .db, is answered 400 and nothing is stored.
C19_UnsafeUploadIsRejected ==
    [][(StoreStep /\ (\/ UnsafeFilename(probe'.request.filename)
                      \/ Suffix(probe'.request.filename) \notin SupportedSuffixes))
           => RejectedUnstored]_vars

\* C19, amended: an upload or discover request whose filename differs from
\* its basename, or is "", "." or "..", or whose suffix, lower-cased, is not
\* one of .csv, .parquet, .xlsx, .sqlite, .db, is answered 400 before
\* anything is stored: no file is written, no dataset registered, no
\* session created.
C19_UnsafeUploadIsRejectedNoCase ==
    [][(StoreStep /\ (\/ UnsafeFilename(probe'.request.filename)
                      \/ LowerText(Suffix(probe'.request.filename)) \notin SupportedSuffixes))
           => RejectedUnstored]_vars

\* After a discovery that left a session and a file, an upload named
\* "../a.csv" has been answered 400 as an invalid filename, and the one
\* file and the one session are what the data directory and the sessions
\* hold.
C19_Witness ==
    /\ probe.kind = "upload"
    /\ probe.request.filename = << ".", ".", "/", "a", ".", "c", "s", "v" >>
    /\ probe.status = 400
    /\ probe.detail = "Invalid filename"
    /\ Cardinality(DOMAIN DATA_DIR) = 1
    /\ Cardinality(DOMAIN IMPORT_SESSIONS) = 1
    /\ ops = 2

\* ------------------------------------------------------------------------
\* C18: uploads and imports of CSV and Parquet files
\* ------------------------------------------------------------------------

\* A safe filename of a CSV or Parquet file.
IsTableFilename(f) == ~UnsafeFilename(f) /\ Suffix(f) \in {SuffixCsv, SuffixParquet}

\* The step registers exactly one dataset, of the given id.
RegistersOnly(id) ==
    /\ id \notin DOMAIN datasets
    /\ DOMAIN datasets' = DOMAIN datasets \cup {id}

\* After the step, a schema call for the id returns the row count.
SchemaCounts(id, rowCount) ==
    /\ get_schema(catalog', datasets', id).err = ""
    /\ get_schema(catalog', datasets', id).val.rowCount = rowCount

\* C18: an upload of a CSV or Parquet file with a safe filename succeeds,
\* registers exactly one new dataset and returns its id, the filename as
\* name, its row count and columns, and a schema call for that id then
\* returns the number of rows of the file; an import of a session discovered
\* from such a file likewise yields exactly one dataset with that row count.
C18_TableFileLoads ==
    [][/\ (ops' = ops + 1 /\ probe'.kind = "upload"
              /\ IsTableFilename(probe'.request.filename))
          => /\ probe'.status = 200
             /\ RegistersOnly(probe'.out.id)
             /\ probe'.out.name = probe'.request.filename
             /\ probe'.out.rowCount = Len(DataRows(probe'.request.content))
             /\ SchemaCounts(probe'.out.id, Len(DataRows(probe'.request.content)))
       /\ (ops' = ops + 1 /\ probe'.kind = "import"
              /\ probe'.request.importId \in DOMAIN IMPORT_SESSIONS
              /\ IMPORT_SESSIONS[probe'.request.importId].format \in {"csv", "parquet"})
          => /\ probe'.status = 200
             /\ Len(probe'.out.datasets) = 1
             /\ RegistersOnly(probe'.out.datasets[1].id)
             /\ SchemaCounts(probe'.out.datasets[1].id,
                             Len(DataRows(DATA_DIR[IMPORT_SESSIONS[probe'.request.importId].path])))
      ]_vars

\* An upload of a.csv, a file of two rows, has been answered 500: the file
\* is in the data directory and no dataset is registered.
C18_Witness ==
    /\ probe.kind = "upload"
    /\ probe.request.filename = << "a", ".", "c", "s", "v" >>
    /\ Len(DataRows(probe.request.content)) = 2
    /\ probe.status = 500
    /\ DOMAIN DATA_DIR = {<< 1, << "a", ".", "c", "s", "v" >> >>}
    /\ DOMAIN datasets = {}

\* ------------------------------------------------------------------------
\* C16: an import that selects an unknown entity
\* ------------------------------------------------------------------------

\* The step is an import request, in mode selected, for a session of a
\* SQLite or Excel file, and one of the entities it selects is not among
\* the entities of the session.
SelectsUnknownEntity ==
    /\ ops' = ops + 1
    /\ probe'.kind = "import"
    /\ probe'.request.importId \in DOMAIN IMPORT_SESSIONS
    /\ IMPORT_SESSIONS[probe'.request.importId].format \in {"sqlite", "excel"}
    /\ probe'.request.importMode = "selected"
    /\ \E k \in 1..Len(probe'.request.selectedEntities) :
           \A j \in 1..Len(IMPORT_SESSIONS[probe'.request.importId].entities) :
               IMPORT_SESSIONS[probe'.request.importId].entities[j]
                   # probe'.request.selectedEntities[k]

\* C16: an import for a multi-entity session that selects an entity the
\* session did not discover fails as a whole: it is answered 400 for the
\* unknown entities, no dataset is registered for any selected entity, the
\* valid ones included, and registry and tables are as before.
C16_UnknownEntityFailsTheImport ==
    [][SelectsUnknownEntity
           => /\ probe'.status = 400
              /\ probe'.detail = "Unknown entities selected: "
              /\ datasets' = datasets
              /\ catalog' = catalog]_vars

\* With one dataset loaded and a session of the tables members and teams,
\* an import selecting members and ghost has been answered 400, and the
\* registry holds the one dataset.
C16_Witness ==
    /\ probe.kind = "import"
    /\ probe.request.importMode = "selected"
    /\ probe.request.selectedEntities = << EntMembers, EntGhost >>
    /\ probe.request.importId \in DOMAIN IMPORT_SESSIONS
    /\ IMPORT_SESSIONS[probe.request.importId].format = "sqlite"
    /\ IMPORT_SESSIONS[probe.request.importId].entities = << EntMembers, EntTeams >>
    /\ probe.status = 400
    /\ probe.detail = "Unknown entities selected: "
    /\ Cardinality(DOMAIN datasets) = 1

\* ------------------------------------------------------------------------
\* C17: the life of an import session
\* ------------------------------------------------------------------------

ImportStep == ops' = ops + 1 /\ probe'.kind = "import"

\* The sessions other than the one of the id are as before.
OtherSessionsKept(id) ==
    /\ DOMAIN IMPORT_SESSIONS' \ {id} = DOMAIN IMPORT_SESSIONS \ {id}
    /\ \A i \in DOMAIN IMPORT_SESSIONS \ {id} : IMPORT_SESSIONS'[i] = IMPORT_SESSIONS[i]

\* An import request the session allows: the file has one table, or the
\* mode is all, or the selection is not empty and names entities of the
\* session only.
ValidImport(session, body) ==
    \/ session.format \in {"csv", "parquet"}
    \/ body.importMode = "all" /\ session.entities # << >>
    \/ /\ body.importMode = "selected"
       /\ body.selectedEntities # << >>
       /\ \A k \in 1..Len(body.selectedEntities) :
              \E j \in 1..Len(session.entities) :
                  session.entities[j] = body.selectedEntities[k]

\* C17: a discovery that succeeds creates one session under an import id
\* that had none; an import for a session succeeds when its request is
\* valid and then removes exactly that session, so that an import with the
\* same id after it is answered 404; an import with an id that has no
\* session is answered 404 and registers nothing; no request touches the
\* sessions of other ids.
C17_SessionLifecycle ==
    [][/\ (ops' = ops + 1 /\ probe'.kind = "discover" /\ probe'.status = 200)
          => /\ probe'.out.importId \notin DOMAIN IMPORT_SESSIONS
             /\ probe'.out.importId \in DOMAIN IMPORT_SESSIONS'
             /\ OtherSessionsKept(probe'.out.importId)
       /\ (ImportStep /\ probe'.request.importId \in DOMAIN IMPORT_SESSIONS
              /\ ValidImport(IMPORT_SESSIONS[probe'.request.importId], probe'.request))
          => /\ probe'.status = 200
             /\ probe'.request.importId \notin DOMAIN IMPORT_SESSIONS'
       /\ (ImportStep /\ probe.kind = "import" /\ probe.status = 200
              /\ probe'.request.importId = probe.request.importId)
          => probe'.status = 404
       /\ (ImportStep /\ probe'.request.importId \notin DOMAIN IMPORT_SESSIONS)
          => /\ probe'.status = 404
             /\ datasets' = datasets
             /\ IMPORT_SESSIONS' = IMPORT_SESSIONS
       /\ ImportStep => OtherSessionsKept(probe'.request.importId)
       /\ (ops' = ops + 1 /\ probe'.kind \in {"upload", "load_file"})
          => IMPORT_SESSIONS' = IMPORT_SESSIONS
      ]_vars

\* After the discovery of a.db, an import of its table members has been
\* answered 500, and the session is still there.
C17_Witness ==
    /\ probe.kind = "import"
    /\ probe.request.importMode = "selected"
    /\ probe.request.selectedEntities = << EntMembers >>
    /\ probe.request.importId = 2
    /\ DOMAIN IMPORT_SESSIONS = {2}
    /\ IMPORT_SESSIONS[2].name = << "a", ".", "d", "b" >>
    /\ IMPORT_SESSIONS[2].entities = << EntMembers, EntTeams >>
    /\ probe.status = 500
    /\ DOMAIN datasets = {}
    /\ ops = 2

\* ------------------------------------------------------------------------
\* C28: the size of a page, nextCursor and the length of a chain
\* ------------------------------------------------------------------------

\* A row matching the filters of the request lies strictly after the last
\* row of the page in the declared order.
RowsAfterPage(p) ==
    \E row \in TheTable.rows :
        /\ MatchesFilters(row, req.filters)
        /\ DeclaredBefore(RowOf(p.rowids[Len(p.rowids)]), row, req)

\* C28: every page of a chain holds at most page_size rows; its nextCursor
\* is set exactly when a row matching the filters lies strictly after its
\* last row (never on a page without rows); the chain never grows beyond
\* totalPages = max(1, ceil(filteredRows / pageSize)) pages, and when it
\* has ended it has exactly that many and the last has no nextCursor.
C28_ChainEndsAfterTotalPages ==
    /\ \A k \in 1..Len(pages) :
           pages[k].err = "" =>
               /\ Len(pages[k].rows) <= req.page_size
               /\ pages[k].rowids = << >> => pages[k].nextCursor = NoCursor
               /\ pages[k].rowids # << >> =>
                      (pages[k].nextCursor # NoCursor <=> RowsAfterPage(pages[k]))
               /\ pages[k].totalPages * req.page_size >= pages[k].filteredRows
               /\ pages[k].totalPages >= 1
               /\ pages[k].totalPages > 1 =>
                      (pages[k].totalPages - 1) * req.page_size < pages[k].filteredRows
               /\ Len(pages) <= pages[k].totalPages
    /\ pc = "end" =>
           /\ Len(pages) = pages[1].totalPages
           /\ pages[Len(pages)].nextCursor = NoCursor
    /\ pc = "paging" => pages[Len(pages)].nextCursor # NoCursor

\* A chain over three matching rows with page size 2 has ended after two
\* pages, the second holding the one row left.
C28_Witness ==
    /\ pc = "end"
    /\ req.page_size = 2
    /\ Len(pages) = 2
    /\ pages[1].filteredRows = 3
    /\ pages[1].totalPages = 2
    /\ Len(pages[1].rows) = 2
    /\ Len(pages[2].rows) = 1

\* ------------------------------------------------------------------------
\* A cursor of a chain under other filters, page size and page number
\* ------------------------------------------------------------------------

\* The cells of the tables: NULLs in both columns, equal ids, equal texts.
ReuseCells ==
    << Row(IntV(2), StrV(<< "a" >>)), Row(IntV(1), NoneV),
       Row(NoneV, StrV(<< "a" >>)), Row(IntV(2), StrV(<< "b" >>)) >>

\* The tables: the first n of the cells, starting from any of them.
ReuseTables ==
    {[cols |-> Schema,
      rows |-> {[rowid |-> k - 1,
                 cells |-> ReuseCells[((k - 1 + first) % Len(ReuseCells)) + 1]] :
                   k \in 1..n}] :
        n \in 0..MaxRows, first \in 0..(Len(ReuseCells) - 1)}

\* The page numbers of the requests reusing a cursor.
ReusePages == {0, 1}

\* After load_file: one dataset in the registry, and the request of the chain.
ReuseInit ==
    /\ datasets = [id \in {TheDataset} |-> TableName(id)]
    /\ \E tbl \in ReuseTables : catalog = [t \in {TableName(TheDataset)} |-> tbl]
    /\ req \in Requests
    /\ pc = "start"
    /\ pages = << >>
    /\ probe = NoProbe
    /\ EngineIdle
    /\ AppIdle

\* A second client passes the nextCursor of the last page of the chain with
\* the sort of the chain, and filters, page size and page number of its own.
ReuseUnderFilters ==
    /\ probe = NoProbe
    /\ pages # << >>
    /\ pages[Len(pages)].err = ""
    /\ pages[Len(pages)].nextCursor # NoCursor
    /\ \E filters \in FilterLists, page_size \in 1..MaxPageSize, page \in ReusePages :
           probe' = [kind |-> "reuse", issued |-> Len(pages), page |-> page,
                     page_size |-> page_size, filters |-> filters,
                     resp |-> get_page(catalog, datasets, TheDataset, page, page_size,
                                       req.sort_column, req.sort_direction, filters,
                                       pages[Len(pages)].nextCursor)]
    /\ UNCHANGED << datasets, catalog, req, pc, pages, engineVars, appVars >>

ReuseNext == FirstPage \/ NextPage \/ ReuseUnderFilters

ReuseSpec == ReuseInit /\ [][ReuseNext]_vars

\* ------------------------------------------------------------------------
\* C29: what a cursor is checked against
\* ------------------------------------------------------------------------

\* The last row of the page that issued the cursor of the probe.
AnchorOfProbe == RowOf(pages[probe.issued].rowids[Len(pages[probe.issued].rowids)])

\* The rows matching the filters of the probe that lie strictly after the
\* anchor in the order of the chain.
RowsAfterAnchor ==
    {row \in TheTable.rows :
        MatchesFilters(row, probe.filters) /\ DeclaredBefore(AnchorOfProbe, row, req)}

\* C29: a cursor issued by a chain is accepted on the sort of the chain
\* under any filter list, page size and page number: the response holds, in
\* order, the first page_size rows that match the new filters and lie
\* strictly after the anchor, and filteredRows and totalPages are those of
\* the new filters without the cursor.
C29_CursorIsCheckedAgainstTheSortOnly ==
    probe.kind = "reuse" =>
        /\ probe.resp.err = ""
        /\ Len(probe.resp.rowids) =
               (IF Cardinality(RowsAfterAnchor) < probe.page_size
                THEN Cardinality(RowsAfterAnchor) ELSE probe.page_size)
        /\ \A k \in 1..Len(probe.resp.rowids) :
               /\ RowOf(probe.resp.rowids[k]) \in RowsAfterAnchor
               /\ probe.resp.rows[k] = RowOf(probe.resp.rowids[k]).cells
               /\ \A row \in RowsAfterAnchor :
                      DeclaredBefore(row, RowOf(probe.resp.rowids[k]), req) =>
                          \E j \in 1..(k - 1) : probe.resp.rowids[j] = row.rowid
        /\ probe.resp.filteredRows =
               Cardinality({row \in TheTable.rows : MatchesFilters(row, probe.filters)})
        /\ probe.resp.totalPages >= 1
        /\ probe.resp.totalPages * probe.page_size >= probe.resp.filteredRows
        /\ probe.resp.totalPages > 1 =>
               (probe.resp.totalPages - 1) * probe.page_size < probe.resp.filteredRows
        /\ probe.resp.page = probe.page
        /\ probe.resp.pageSize = probe.page_size

\* A cursor issued without filters at page size 1 has come back with a
\* filter and page size 2, and the response holds the two matching rows
\* after the anchor.
C29_Witness ==
    /\ probe.kind = "reuse"
    /\ req.filters = << >>
    /\ req.page_size = 1
    /\ req.sort_column # NoneV
    /\ probe.filters # << >>
    /\ probe.page_size = 2
    /\ probe.resp.err = ""
    /\ Len(probe.resp.rowids) >= 1
    /\ probe.resp.filteredRows < probe.resp.totalRows

\* ------------------------------------------------------------------------
\* DuckDBEngine.export_csv: the rows in order and the CSV written
\* ------------------------------------------------------------------------

\* r1 sorts strictly before r2 by ORDER BY col dir NULLS LAST.
SortsBefore(r1, r2, col, dir) ==
    IF r1.cells[col].t = "none" THEN FALSE
    ELSE IF r2.cells[col].t = "none" THEN TRUE
    ELSE IF dir = "ASC" THEN ValLess(r1.cells[col], r2.cells[col])
    ELSE ValLess(r2.cells[col], r1.cells[col])

\* result.fetchall() of SELECT * ... ORDER BY: the orders the statement
\* allows.  ORDER BY rowid ASC fixes one; ORDER BY col dir NULLS LAST leaves
\* rows of equal value in any order.
ExportOrders(rows, sort_column, sort_dir) ==
    IF ~Truthy(sort_column) THEN {OrderBy(rows, << >>, "ASC")}
    ELSE {s \in [1..Cardinality(rows) -> rows] :
             /\ \A i, j \in 1..Cardinality(rows) : i # j => s[i] # s[j]
             /\ \A i, j \in 1..Cardinality(rows) :
                    i < j => ~SortsBefore(s[j], s[i], sort_column.s, sort_dir)}

\* csv.writer, QUOTE_MINIMAL: a field is quoted when it holds the delimiter,
\* the quote character or a character of the line terminator.
CsvNeedsQuotes(field) ==
    \E k \in 1..Len(field) : field[k] \in {",", "\"", "\r", "\n"}

\* Every field written as it is.
MutCsvFieldUnquoted(field) == field

CsvField(field) ==
    IF CsvNeedsQuotes(field) THEN << "\"" >> \o DoubleQuotes(field) \o << "\"" >>
    ELSE field

RECURSIVE CsvJoin(_)
CsvJoin(fields) ==
    IF Len(fields) = 1 THEN CsvField(fields[1])
    ELSE CsvJoin(SubSeq(fields, 1, Len(fields) - 1)) \o << "," >>
             \o CsvField(fields[Len(fields)])

\* writer.writerow(fields): a row of one empty field is written as "".
CsvRow(fields) ==
    IF fields = << >> THEN << "\r", "\n" >>
    ELSE IF fields = << << >> >> THEN << "\"", "\"", "\r", "\n" >>
    ELSE CsvJoin(fields) \o << "\r", "\n" >>

\* str(v) if v is not None else ""
CsvCell(v) == IF v.t = "none" THEN << >> ELSE PyStr(v)

RECURSIVE CsvRows(_, _)
CsvRows(col_names, rows) ==
    IF rows = << >> THEN << >>
    ELSE CsvRows(col_names, SubSeq(rows, 1, Len(rows) - 1))
             \o CsvRow([k \in 1..Len(col_names) |->
                           CsvCell(rows[Len(rows)].cells[col_names[k]])])

\* buf.getvalue().encode("utf-8")
CsvBytes(col_names, rows) ==
    TextToBytes(CsvRow(col_names) \o CsvRows(col_names, rows))

\* col_names = [desc[0] for desc in result.description]
ColNames(tbl) == [k \in 1..Len(tbl.cols) |-> tbl.cols[k][1]]

\* The cells of the exported tables: texts with a comma, a quote and a line
\* feed, NULLs in both columns.
ExportCells ==
    {Row(IntV(1), StrV(<< "a", ",", "b" >>)), Row(IntV(2), StrV(<< "x", "\"", "a" >>)),
     Row(NoneV, StrV(<< "l", "\n", "m" >>)), Row(IntV(2), NoneV)}

ExportTables ==
    UNION {{[cols |-> Schema,
             rows |-> {[rowid |-> k - 1, cells |-> f[k]] : k \in 1..n}] :
            f \in [1..n -> ExportCells]} : n \in 0..MaxRows}

ExportRequests ==
    [sort_column : SortColumns, sort_direction : SortDirections, filters : FilterLists]

\* After load_file: one dataset in the registry.
ExportInit ==
    /\ datasets = [id \in {TheDataset} |-> TableName(id)]
    /\ \E tbl \in ExportTables : catalog = [t \in {TableName(TheDataset)} |-> tbl]
    /\ req = << >>
    /\ pc = "start"
    /\ pages = << >>
    /\ probe = NoProbe
    /\ EngineIdle
    /\ AppIdle

\* The response to an export: the error, the order fetched and the bytes.
ExportProbe(dataset_id, request, out, order) ==
    [kind |-> "export", dataset_id |-> dataset_id, request |-> request,
     err |-> out.err, status |-> Status(out), order |-> order,
     body |-> IF out.err # "" THEN << >>
              ELSE CsvBytes(ColNames(catalog[datasets[dataset_id]]), order)]

\* GET /api/datasets/{dataset_id}/export
ExportCsv ==
    /\ probe = NoProbe
    /\ \E id \in IdPool, r \in ExportRequests :
        \E out \in {export_csv(catalog, datasets, id, r.sort_column, r.sort_direction,
                               r.filters)} :
            \E order \in (IF out.err # "" THEN {<< >>}
                          ELSE ExportOrders(out.rows, r.sort_column,
                                            IF PyEq(r.sort_direction, DescWord)
                                            THEN "DESC" ELSE "ASC")) :
                probe' = ExportProbe(id, r, out, order)
    /\ UNCHANGED << datasets, catalog, req, pc, pages, engineVars, appVars >>

\* GET /api/datasets/{dataset_id}/page for the same filters.
ExportPage ==
    /\ probe # NoProbe
    /\ pages = << >>
    /\ pages' = << get_page(catalog, datasets, probe.dataset_id, 0, MaxPageSize,
                            probe.request.sort_column, probe.request.sort_direction,
                            probe.request.filters, NoCursor) >>
    /\ UNCHANGED << datasets, catalog, req, pc, probe, engineVars, appVars >>

ExportNext == ExportCsv \/ ExportPage

ExportSpec == ExportInit /\ [][ExportNext]_vars

\* ------------------------------------------------------------------------
\* C27: the records of an export
\* ------------------------------------------------------------------------

\* The number of quote bytes before position i.
QuotesBefore(b, i) == Cardinality({j \in 1..(i - 1) : b[j] = 34})

\* The positions where a record ends: CR LF outside quotes.
RecordEnds(b) ==
    {i \in 1..(Len(b) - 1) : b[i] = 13 /\ b[i + 1] = 10 /\ QuotesBefore(b, i) % 2 = 0}

NthOf(positions, k) ==
    CHOOSE i \in positions : Cardinality({j \in positions : j < i}) = k - 1

\* The bytes of the k-th record, without its terminator.
RecordBytes(b, k) ==
    SubSeq(b, IF k = 1 THEN 1 ELSE NthOf(RecordEnds(b), k - 1) + 2,
           NthOf(RecordEnds(b), k) - 1)

\* The positions of the commas of a record that separate fields.
FieldEnds(rec) ==
    {i \in 1..Len(rec) : rec[i] = 44 /\ QuotesBefore(rec, i) % 2 = 0} \cup {Len(rec) + 1}

\* A quoted field without its quotes, "" read as one quote.
RECURSIVE Undoubled(_)
Undoubled(f) ==
    IF f = << >> THEN << >>
    ELSE IF Len(f) >= 2 /\ f[1] = 34 /\ f[2] = 34
    THEN << 34 >> \o Undoubled(SubSeq(f, 3, Len(f)))
    ELSE << f[1] >> \o Undoubled(Tail(f))

FieldValue(f) ==
    IF Len(f) >= 2 /\ f[1] = 34 /\ f[Len(f)] = 34
    THEN Undoubled(SubSeq(f, 2, Len(f) - 1))
    ELSE f

\* The fields of a record, as a reader of CSV finds them.
FieldsOf(rec) ==
    [k \in 1..Cardinality(FieldEnds(rec)) |->
        FieldValue(SubSeq(rec,
                          IF k = 1 THEN 1 ELSE NthOf(FieldEnds(rec), k - 1) + 1,
                          NthOf(FieldEnds(rec), k) - 1))]

\* The records of a CSV body.
RecordsOf(b) ==
    [k \in 1..Cardinality(RecordEnds(b)) |-> FieldsOf(RecordBytes(b, k))]

\* The fields a row is to be written as: a NULL cell is an empty field.
RowFields(row) ==
    [k \in 1..Len(TheTable.cols) |->
        IF row.cells[TheTable.cols[k][1]] = NoneV THEN << >>
        ELSE TextToBytes(PyStr(row.cells[TheTable.cols[k][1]]))]

\* The rows of the table matching the filters of the export.
ExportMatching == {row \in TheTable.rows : MatchesFilters(row, probe.request.filters)}

\* C27: an export that succeeds is one header record followed by one data
\* record per row matching the filters and none for any other row, as many
\* as the filteredRows get_page reports for the same filters; without a
\* sort column the records are in ascending rowid order; a NULL cell is an
\* empty field.
C27_ExportIsHeaderAndMatchingRows ==
    (probe.kind = "export" /\ probe.err = "") =>
        LET recs == RecordsOf(probe.body)
            byRowid == OrderBy(ExportMatching, << >>, "ASC")
        IN  /\ probe.body # << >>
            /\ Len(probe.body) - 1 \in RecordEnds(probe.body)
            /\ Len(recs) = Cardinality(ExportMatching) + 1
            /\ recs[1] = [k \in 1..Len(TheTable.cols) |->
                             TextToBytes(TheTable.cols[k][1])]
            /\ \A row \in ExportMatching :
                   Cardinality({k \in 2..Len(recs) : recs[k] = RowFields(row)})
                       = Cardinality({r \in ExportMatching : RowFields(r) = RowFields(row)})
            /\ \A k \in 2..Len(recs) : \E row \in ExportMatching : recs[k] = RowFields(row)
            /\ ~Truthy(probe.request.sort_column) =>
                   \A k \in 1..Len(byRowid) : recs[k + 1] = RowFields(byRowid[k])
            /\ pages # << >> =>
                   /\ pages[1].err = ""
                   /\ pages[1].filteredRows = Cardinality(ExportMatching)

\* An unsorted export of the rows with a text in g, from a table of three
\* rows of which one has NULL in g, one NULL in id and a line feed in g,
\* and one a comma in g, holds the header and two records, and get_page
\* reports two filtered rows.
C27_Witness ==
    /\ probe.kind = "export"
    /\ probe.err = ""
    /\ probe.request.sort_column = NoneV
    /\ probe.request.filters = << Filter(ColG, OpIsNotNull, NoneV) >>
    /\ Cardinality(TheTable.rows) = 3
    /\ \E row \in TheTable.rows : row.cells = Row(IntV(2), NoneV)
    /\ \E row \in TheTable.rows : row.cells = Row(NoneV, StrV(<< "l", "\n", "m" >>))
    /\ \E row \in TheTable.rows : row.cells = Row(IntV(1), StrV(<< "a", ",", "b" >>))
    /\ Len(RecordsOf(probe.body)) = 3
    /\ pages # << >>
    /\ pages[1].filteredRows = 2

\* ------------------------------------------------------------------------
\* C30: an import that fails while loading
\* ------------------------------------------------------------------------

\* The step is an import for a session, past the checks of the selection,
\* that is answered with an error: a call of load_file has failed.
ImportFailsLoading ==
    /\ ImportStep
    /\ probe'.request.importId \in DOMAIN IMPORT_SESSIONS
    /\ ValidImport(IMPORT_SESSIONS[probe'.request.importId], probe'.request)
    /\ probe'.status # 200

\* The number of entities the request of the step selects.
SelectedCount ==
    IF IMPORT_SESSIONS[probe'.request.importId].format \in {"csv", "parquet"} THEN 1
    ELSE IF probe'.request.importMode = "all"
    THEN Len(IMPORT_SESSIONS[probe'.request.importId].entities)
    ELSE Len(probe'.request.selectedEntities)

PROFILE_FULL_ROW_LIMIT == 1000000

\* The bins of the numeric histogram of a profile.
HistogramBins == 20

\* The rows WHERE col IS NOT NULL.
NotNullRows(tbl, col) == {r \in tbl.rows : r.cells[col] # NoneV}

\* The groups of GROUP BY col over the non-null rows.
DistinctValues(tbl, col) == {r.cells[col] : r \in NotNullRows(tbl, col)}

\* COUNT(*) of the group of one value.
GroupCount(tbl, col, v) == Cardinality({r \in tbl.rows : r.cells[col] = v})

SetMin(S) == CHOOSE x \in S : \A y \in S : x <= y

SetMax(S) == CHOOSE x \in S : \A y \in S : y <= x

\* ORDER BY of distinct integers.
Ascending(S) ==
    [k \in 1..Cardinality(S) |-> CHOOSE x \in S : Cardinality({y \in S : y < x}) = k - 1]

\* The distinct numbers of a numeric column, in tenths.
NumbersOf(tbl, col) == {Tenths(v) : v \in DistinctValues(tbl, col)}

\* round((part / whole) * 100, 2), in hundredths of a percent.
Pct(part, whole) == (2 * part * 10000 + whole) \div (2 * whole)

\* _safe_number of a finite number in tenths: an int when it is whole.
_safe_number(tenths) == IF tenths % 10 = 0 THEN IntV(tenths \div 10) ELSE FloatV(tenths)

\* FLOOR((col::DOUBLE - lo) / bin_width)::INTEGER with bin_width = (hi - lo) / bins,
\* on the exact quotient.
HistogramBin(v, lo, hi, bins) == ((v - lo) * bins) \div (hi - lo)

\* max(0, min(int(bin_idx), bins - 1))
ClampBin(bin_idx, bins) ==
    IF bin_idx > bins - 1 THEN bins - 1 ELSE IF bin_idx < 0 THEN 0 ELSE bin_idx

\* The entry appended for one row of the GROUP BY bin query.  low and high
\* are lo + idx * bin_width and that plus bin_width, in units of a tenth
\* divided by bins, which round(x, 4) leaves as they are.
HistogramEntry(tbl, col, lo, hi, bins, bin_idx) ==
    [bin |-> ClampBin(bin_idx, bins),
     low |-> bins * lo + ClampBin(bin_idx, bins) * (hi - lo),
     high |-> bins * lo + (ClampBin(bin_idx, bins) + 1) * (hi - lo),
     count |-> Cardinality({r \in NotNullRows(tbl, col) :
                   HistogramBin(Tenths(r.cells[col]), lo, hi, bins) = bin_idx})]

\* The bin column of the query, ORDER BY bin.
HistogramRows(tbl, col, lo, hi, bins) ==
    Ascending({HistogramBin(n, lo, hi, bins) : n \in NumbersOf(tbl, col)})

HistogramOfBounds(tbl, col, lo, hi, bins) ==
    [k \in 1..Cardinality({HistogramBin(n, lo, hi, bins) : n \in NumbersOf(tbl, col)}) |->
        HistogramEntry(tbl, col, lo, hi, bins, HistogramRows(tbl, col, lo, hi, bins)[k])]

\* _profile_histogram_numeric: no histogram when the column has no value or
\* MIN equals MAX.
_profile_histogram_numeric(tbl, col, bins) ==
    IF NotNullRows(tbl, col) = {} THEN << >>
    ELSE IF SetMin(NumbersOf(tbl, col)) = SetMax(NumbersOf(tbl, col)) THEN << >>
    ELSE HistogramOfBounds(tbl, col, SetMin(NumbersOf(tbl, col)),
                           SetMax(NumbersOf(tbl, col)), bins)

\* What _profile_dominant_value returns: None, or a dict of value and count.
NoDominant == [found |-> FALSE, value |-> NoneV, count |-> 0]

Dominant(value, count) == [found |-> TRUE, value |-> value, count |-> count]

\* The first cnt of ORDER BY cnt DESC.
TopCount(tbl, col) == SetMax({GroupCount(tbl, col, v) : v \in DistinctValues(tbl, col)})

\* The first row of ORDER BY cnt DESC, col ASC.
TopValue(tbl, col) ==
    CHOOSE v \in DistinctValues(tbl, col) :
        /\ GroupCount(tbl, col, v) = TopCount(tbl, col)
        /\ \A w \in DistinctValues(tbl, col) :
              GroupCount(tbl, col, w) = TopCount(tbl, col) => ~ValLess(w, v)

\* _profile_dominant_value: the value is None when the two highest counts
\* are equal.
_profile_dominant_value(tbl, col) ==
    IF DistinctValues(tbl, col) = {} THEN NoDominant
    ELSE IF Cardinality({v \in DistinctValues(tbl, col) :
                            GroupCount(tbl, col, v) = TopCount(tbl, col)}) > 1
    THEN Dominant(NoneV, TopCount(tbl, col))
    ELSE Dominant(StrV(PyStr(TopValue(tbl, col))), TopCount(tbl, col))

\* _profile_numeric and _profile_numeric_quality: no statistics for a
\* column without a value.  The mean, the median, the standard deviation,
\* the quantiles and the outlier rate are real-valued and not carried here.
NumericStats(tbl, col) ==
    IF NotNullRows(tbl, col) = {} THEN << >>
    ELSE [min |-> _safe_number(SetMin(NumbersOf(tbl, col))),
          max |-> _safe_number(SetMax(NumbersOf(tbl, col))),
          zeroRatePct |->
              Pct(Cardinality({r \in NotNullRows(tbl, col) : Tenths(r.cells[col]) = 0}),
                  Cardinality(NotNullRows(tbl, col))),
          negativeRatePct |->
              Pct(Cardinality({r \in NotNullRows(tbl, col) : Tenths(r.cells[col]) < 0}),
                  Cardinality(NotNullRows(tbl, col)))]

\* One entry of topValues.
TopEntry(tbl, col, v) == [value |-> PyStr(v), count |-> GroupCount(tbl, col, v)]

\* _profile_top_values: the limit groups ORDER BY cnt DESC.  The order of
\* groups of equal count is the engine's, so the outcomes are the sets of
\* groups no left-out group has a higher count than; the entries are kept
\* as a set.
_profile_top_values(tbl, col, limit) ==
    {{TopEntry(tbl, col, v) : v \in top} :
        top \in {S \in SUBSET DistinctValues(tbl, col) :
                    /\ \/ Cardinality(S) = limit
                       \/ Cardinality(S) < limit /\ S = DistinctValues(tbl, col)
                    /\ \A v \in S, w \in DistinctValues(tbl, col) \ S :
                          GroupCount(tbl, col, w) <= GroupCount(tbl, col, v)}}

\* LENGTH(col) of the non-null rows, ascending.
SortedLengths(tbl, col) ==
    [k \in 1..Cardinality(NotNullRows(tbl, col)) |->
        Len((CHOOSE r \in NotNullRows(tbl, col) :
                Cardinality({q \in NotNullRows(tbl, col) :
                    \/ Len(q.cells[col].s) < Len(r.cells[col].s)
                    \/ Len(q.cells[col].s) = Len(r.cells[col].s) /\ q.rowid < r.rowid})
                = k - 1).cells[col].s)]

\* MEDIAN of an ascending list, in tenths.
Median(sorted) ==
    IF Len(sorted) % 2 = 1 THEN 10 * sorted[(Len(sorted) + 1) \div 2]
    ELSE 5 * (sorted[Len(sorted) \div 2] + sorted[Len(sorted) \div 2 + 1])

\* The rows whose value trims to the empty text.
BlankRows(tbl, col) == {r \in NotNullRows(tbl, col) : Strip(r.cells[col].s) = << >>}

\* _profile_string_quality
_profile_string_quality(tbl, col, non_null_count) ==
    IF non_null_count <= 0 THEN << >>
    ELSE [blankWhitespaceCount |-> Cardinality(BlankRows(tbl, col)),
          blankWhitespacePct |-> Pct(Cardinality(BlankRows(tbl, col)), non_null_count)]

IsLetter(c) == (Ord(c) >= 65 /\ Ord(c) <= 90) \/ (Ord(c) >= 97 /\ Ord(c) <= 122)

IsHex(c) == IsDigit(c) \/ (Ord(c) >= 97 /\ Ord(c) <= 102)

\* The first pattern of the CASE as the f-string leaves it, {8} being
\* replaced by 8: ^[0-9a-f]8-[0-9a-f]4-[1-5][0-9a-f]3-[89ab][0-9a-f]3-[0-9a-f]12$
MatchesUuidPattern(v) ==
    /\ Len(v) = 17
    /\ \A k \in {1, 4, 8, 12, 15} : IsHex(v[k])
    /\ v[2] = "8" /\ v[5] = "4" /\ v[9] = "3" /\ v[13] = "3" /\ v[16] = "1" /\ v[17] = "2"
    /\ \A k \in {3, 6, 10, 14} : v[k] = "-"
    /\ v[7] \in {"1", "2", "3", "4", "5"}
    /\ v[11] \in {"8", "9", "a", "b"}

\* The second pattern as the f-string leaves it, {(2,)} being replaced by
\* (2,): ^[A-Za-z0-9._%+\-]+@[A-Za-z0-9.\-]+\.[A-Za-z](2,)$
MatchesEmailPattern(v) ==
    /\ Len(v) >= 7
    /\ v[Len(v)] = "," /\ v[Len(v) - 1] = "2" /\ IsLetter(v[Len(v) - 2])
    /\ v[Len(v) - 3] = "."
    /\ \E p \in 2..(Len(v) - 5) :
        /\ v[p] = "@"
        /\ \A k \in 1..(p - 1) :
              IsLetter(v[k]) \/ IsDigit(v[k]) \/ v[k] \in {".", "_", "%", "+", "-"}
        /\ \A k \in (p + 1)..(Len(v) - 4) :
              IsLetter(v[k]) \/ IsDigit(v[k]) \/ v[k] \in {".", "-"}

\* The class of a trimmed, non-empty value.
PatternClass(v) ==
    IF MatchesUuidPattern(LowerText(v)) THEN "uuid"
    ELSE IF MatchesEmailPattern(v) THEN "email"
    ELSE IF \A k \in 1..Len(v) : IsDigit(v[k]) THEN "numeric-only"
    ELSE IF /\ \E k \in 1..Len(v) : IsDigit(v[k])
            /\ \E k \in 1..Len(v) : IsLetter(v[k])
            /\ \A k \in 1..Len(v) : IsLetter(v[k]) \/ IsDigit(v[k]) \/ v[k] \in {"_", "-"}
    THEN "code-like"
    ELSE "free-text"

\* The letters of a value replaced by A and its digits by 9.
PatternMask(v) ==
    [k \in 1..Len(v) |-> IF IsLetter(v[k]) THEN "A" ELSE IF IsDigit(v[k]) THEN "9" ELSE v[k]]

\* The rows of vals: the non-null rows that do not trim to the empty text.
PatternRows(tbl, col) == NotNullRows(tbl, col) \ BlankRows(tbl, col)

ClassCount(tbl, col, cls) ==
    Cardinality({r \in PatternRows(tbl, col) : PatternClass(Strip(r.cells[col].s)) = cls})

\* _profile_string_patterns: the classes with their counts (there are no
\* more than the five of the LIMIT; kept as a set, the order of equal
\* counts being the engine's) and the number of distinct masks.
PatternClasses(tbl, col) ==
    {[label |-> cls, count |-> ClassCount(tbl, col, cls),
      sharePct |-> Pct(ClassCount(tbl, col, cls), Cardinality(PatternRows(tbl, col)))] :
        cls \in {PatternClass(Strip(r.cells[col].s)) : r \in PatternRows(tbl, col)}}

DistinctPatternCount(tbl, col) ==
    Cardinality({PatternMask(Strip(r.cells[col].s)) : r \in PatternRows(tbl, col)})

\* The stats of a string column: the lengths and the quality when the
\* column has a value, and the number of distinct masks.
StringStats(tbl, col, non_null_count) ==
    (IF NotNullRows(tbl, col) # {}
     THEN [minLength |-> SortedLengths(tbl, col)[1],
           maxLength |-> SortedLengths(tbl, col)[Cardinality(NotNullRows(tbl, col))],
           medianLength |-> _safe_number(Median(SortedLengths(tbl, col)))]
              @@ _profile_string_quality(tbl, col, non_null_count)
     ELSE _profile_string_quality(tbl, col, non_null_count))
        @@ [distinctPatternCount |-> DistinctPatternCount(tbl, col)]

\* sum(v["count"] for v in top_values)
Top10Total(tbl, col, top_values) ==
    Cardinality({r \in NotNullRows(tbl, col) :
                    \E e \in top_values : e.value = PyStr(r.cells[col])})

\* tailProfile by the share of the top values
TailProfile(top_10_total, non_null_count) ==
    IF non_null_count > 0 /\ top_10_total * 100 >= 70 * non_null_count THEN "low"
    ELSE IF non_null_count > 0 /\ top_10_total * 100 >= 40 * non_null_count THEN "medium"
    ELSE "high"

\* The fields of the string branch.
StringFields(tbl, col, non_null_count, top_values) ==
    [topValues |-> top_values,
     stats |-> StringStats(tbl, col, non_null_count),
     patternClasses |-> PatternClasses(tbl, col),
     top10CoveragePct |->
         IF non_null_count > 0 /\ top_values # {}
         THEN Pct(Top10Total(tbl, col, top_values), non_null_count) ELSE 0,
     tailProfile |-> TailProfile(Top10Total(tbl, col, top_values), non_null_count)]

\* The day number of a civil date (days since 1970-01-01), as DATEDIFF and
\* datetime count days.
DaysFromCivil(y, m, d) ==
    ((IF m <= 2 THEN y - 1 ELSE y) \div 400) * 146097
        + ((IF m <= 2 THEN y - 1 ELSE y) % 400) * 365
        + ((IF m <= 2 THEN y - 1 ELSE y) % 400) \div 4
        - ((IF m <= 2 THEN y - 1 ELSE y) % 400) \div 100
        + (153 * (IF m > 2 THEN m - 3 ELSE m + 9) + 2) \div 5 + d - 1 - 719468

\* The day number of a DATE value, by its ISO text.
DayOf(v) ==
    DaysFromCivil(TextToNat(SubSeq(v.s, 1, 4), 0), TextToNat(SubSeq(v.s, 6, 7), 0),
                  TextToNat(SubSeq(v.s, 9, 10), 0))

\* The distinct days of a date column.
DaysOf(tbl, col) == {DayOf(v) : v \in DistinctValues(tbl, col)}

\* _profile_date_gaps: the days of the span no value falls on, and the
\* largest run of such days between two values.
_profile_date_gaps(tbl, col) ==
    [missingPeriodDays |->
        SetMax({0, SetMax(DaysOf(tbl, col)) - SetMin(DaysOf(tbl, col)) + 1
                       - Cardinality(DaysOf(tbl, col))}),
     largestGapDays |->
        SetMax({0} \cup {Ascending(DaysOf(tbl, col))[k + 1] - Ascending(DaysOf(tbl, col))[k] - 1 :
                            k \in 1..(Cardinality(DaysOf(tbl, col)) - 1)})]

\* ORDER BY of distinct texts.
TextAscending(S) ==
    [k \in 1..Cardinality(S) |->
        CHOOSE x \in S : Cardinality({y \in S : TextLess(y, x)}) = k - 1]

\* The months of a date column: str(month)[:7].
MonthsOf(tbl, col) == {SubSeq(v.s, 1, 7) : v \in DistinctValues(tbl, col)}

\* _profile_histogram_date: the rows of each month, ORDER BY month.
_profile_histogram_date(tbl, col) ==
    [k \in 1..Cardinality(MonthsOf(tbl, col)) |->
        [label |-> TextAscending(MonthsOf(tbl, col))[k],
         count |-> Cardinality({r \in NotNullRows(tbl, col) :
                       SubSeq(r.cells[col].s, 1, 7) = TextAscending(MonthsOf(tbl, col))[k]})]]

\* The stats of a date column.
DateStats(tbl, col) ==
    IF NotNullRows(tbl, col) = {} THEN << >>
    ELSE [min |-> TextAscending({v.s : v \in DistinctValues(tbl, col)})[1],
          max |-> TextAscending({v.s : v \in DistinctValues(tbl, col)})
                      [Cardinality(DistinctValues(tbl, col))]]
             @@ _profile_date_gaps(tbl, col)

\* _profile_boolean_split
_profile_boolean_split(tbl, col, total_profiled_rows) ==
    [trueCount |-> GroupCount(tbl, col, BoolV(TRUE)),
     falseCount |-> GroupCount(tbl, col, BoolV(FALSE)),
     nullCount |-> GroupCount(tbl, col, NoneV),
     trueSharePct |->
         Pct(GroupCount(tbl, col, BoolV(TRUE)), SetMax({1, total_profiled_rows})),
     falseSharePct |->
         Pct(GroupCount(tbl, col, BoolV(FALSE)), SetMax({1, total_profiled_rows})),
     nullSharePct |->
         Pct(GroupCount(tbl, col, NoneV), SetMax({1, total_profiled_rows}))]

TextTrue == << "t", "r", "u", "e" >>

TextFalse == << "f", "a", "l", "s", "e" >>

TextNone == << "n", "o", "n", "e" >>

\* The dominant side of a boolean column: None when the counts are equal.
BooleanDominant(true_count, false_count) ==
    IF true_count = false_count THEN Dominant(NoneV, true_count)
    ELSE IF true_count > false_count THEN Dominant(StrV(TextTrue), true_count)
    ELSE Dominant(StrV(TextFalse), false_count)

\* The dominant value found in the branch of the column's type; None and 0
\* where the branch sets none.
DominantOfType(tbl, col, app_type) ==
    IF app_type = "boolean"
    THEN BooleanDominant(GroupCount(tbl, col, BoolV(TRUE)), GroupCount(tbl, col, BoolV(FALSE)))
    ELSE IF app_type \in {"integer", "float", "string", "date"}
    THEN _profile_dominant_value(tbl, col)
    ELSE NoDominant

\* The dominant fields of the report, written when the column has a value
\* and a dominant count.
DominantFields(dominant_value, dominant_count, non_null_count) ==
    IF non_null_count > 0 /\ dominant_count > 0
    THEN IF dominant_value = NoneV
         THEN [dominantValue |-> StrV(TextNone), dominantValueCount |-> dominant_count]
         ELSE [dominantValue |-> dominant_value, dominantValueCount |-> dominant_count,
               dominantValueSharePct |-> Pct(dominant_count, non_null_count)]
    ELSE << >>

\* The fields every profile has.  The tables of the model are under
\* PROFILE_FULL_ROW_LIMIT rows, so the sample is the table.
BaseFields(tbl, column, app_type) ==
    [column |-> column, type |-> app_type,
     totalRows |-> Cardinality(tbl.rows),
     sampled |-> Cardinality(tbl.rows) > PROFILE_FULL_ROW_LIMIT,
     sampleSize |-> IF Cardinality(tbl.rows) > PROFILE_FULL_ROW_LIMIT
                    THEN PROFILE_FULL_ROW_LIMIT ELSE Cardinality(tbl.rows),
     nonNullCount |-> Cardinality(NotNullRows(tbl, column)),
     nullCount |-> Cardinality(tbl.rows) - Cardinality(NotNullRows(tbl, column)),
     uniqueCount |-> Cardinality(DistinctValues(tbl, column))]

\* The fields of the branch of the column's type.
TypeFields(tbl, col, app_type, top_values) ==
    CASE app_type \in {"integer", "float"} ->
            [stats |-> NumericStats(tbl, col),
             histogram |-> _profile_histogram_numeric(tbl, col, HistogramBins)]
      [] app_type = "string" ->
            StringFields(tbl, col, Cardinality(NotNullRows(tbl, col)), top_values)
      [] app_type = "date" ->
            (IF NotNullRows(tbl, col) = {} THEN << >> ELSE [stats |-> DateStats(tbl, col)])
                @@ [histogram |-> _profile_histogram_date(tbl, col)]
      [] app_type = "boolean" ->
            [stats |-> _profile_boolean_split(tbl, col, Cardinality(tbl.rows))]
      [] OTHER -> << >>

\* The report of a column of a table; top_values is what the top values
\* query returned.
ProfileOfColumn(tbl, column, app_type, top_values) ==
    BaseFields(tbl, column, app_type)
        @@ TypeFields(tbl, column, app_type, top_values)
        @@ DominantFields(DominantOfType(tbl, column, app_type).value,
                          DominantOfType(tbl, column, app_type).count,
                          Cardinality(NotNullRows(tbl, column)))

\* DuckDBEngine.profile_column with its report.
ProfileReport(cat, registry, dataset_id, column, top_values) ==
    IF _get_table(registry, dataset_id).err # "" THEN _get_table(registry, dataset_id)
    ELSE IF column \notin DOMAIN _get_column_meta(cat[registry[dataset_id]])
    THEN RaiseMsg("ValueError", "Column not found: ", column)
    ELSE Ok(ProfileOfColumn(cat[registry[dataset_id]], column,
                            _get_column_meta(cat[registry[dataset_id]])[column].app_type,
                            top_values))

\* ------------------------------------------------------------------------
\* engine.py: the sparklines of a schema
\* ------------------------------------------------------------------------
\* The values of a column of the sample are kept as the set of the sample's
\* rows with their value of the column: no step below depends on the order
\* of the list.

\* The rows sampled for the sparklines.
SparklineSample == 2000

\* The bins of a sparkline.
SparklineBins == 8

\* values_by_col[col_name]
ValuesByCol(sample_rows, col) == {[rowid |-> r.rowid, v |-> r.cells[col]] : r \in sample_rows}

\* The number of values a test holds of.
CountOf(values, x) == Cardinality({e \in values : e.v = x})

\* _bin_numeric over numbers n(e) of the values: the count of each of the
\* bins, a value at the upper bound in the last one.
_bin_numeric(values, bins) ==
    IF values = {} THEN << >>
    ELSE IF SetMin({e.v : e \in values}) = SetMax({e.v : e \in values})
    THEN [k \in 1..bins |-> IF k = bins \div 2 + 1 THEN Cardinality(values) ELSE 0]
    ELSE [k \in 1..bins |->
            Cardinality({e \in values :
                ClampBin(HistogramBin(e.v, SetMin({x.v : x \in values}),
                                      SetMax({x.v : x \in values}), bins), bins) = k - 1})]

\* The sparkline of a list of numbers: the frequency of each value in
\* ascending order when there are no more than bins of them, else the bins.
NumberSparkline(values, bins) ==
    IF values = {} THEN << >>
    ELSE IF Cardinality({e.v : e \in values}) <= bins
    THEN [k \in 1..Cardinality({e.v : e \in values}) |->
            CountOf(values, Ascending({e.v : e \in values})[k])]
    ELSE _bin_numeric(values, bins)

\* The counts of the keys, highest first.
CountsDescending(values) ==
    [k \in 1..Cardinality({e.v : e \in values}) |->
        CountOf(values,
                CHOOSE x \in {e.v : e \in values} :
                    Cardinality({y \in {e.v : e \in values} :
                        \/ CountOf(values, y) > CountOf(values, x)
                        \/ CountOf(values, y) = CountOf(values, x) /\ TextLess(y, x)})
                    = k - 1)]

MutTopCountsUncut(values, bins) == CountsDescending(values)

\* sorted(counts.values(), reverse=True)[:bins]
TopCounts(values, bins) == SubSeq(CountsDescending(values), 1, bins)

\* The sparkline of the texts str(v): the count of each key in the order of
\* the keys when there are no more than bins of them, else the highest
\* counts.
TextSparkline(values, bins) ==
    IF Cardinality({e.v : e \in values}) <= bins
    THEN [k \in 1..Cardinality({e.v : e \in values}) |->
            CountOf(values, TextAscending({e.v : e \in values})[k])]
    ELSE TopCounts(values, bins)

\* A value of a column as the branch of its type reads it: float(v) in
\* tenths, the timestamp of a day in seconds (the zone's offset left out),
\* bool(v), str(v).
ReadAs(e, col_type) ==
    [rowid |-> e.rowid,
     v |-> CASE col_type \in {"integer", "float"} -> Tenths(e.v)
             [] col_type = "date" -> 86400 * DayOf(e.v)
             [] col_type = "boolean" -> Truthy(e.v)
             [] OTHER -> PyStr(e.v)]

\* _compute_sparkline
_compute_sparkline(values, col_type, bins) ==
    IF {e \in values : e.v # NoneV} = {} THEN << >>
    ELSE CASE col_type \in {"integer", "float", "date"} ->
                NumberSparkline({ReadAs(e, col_type) : e \in {x \in values : x.v # NoneV}}, bins)
           [] col_type = "boolean" ->
                << CountOf({ReadAs(e, col_type) : e \in {x \in values : x.v # NoneV}}, FALSE),
                   CountOf({ReadAs(e, col_type) : e \in {x \in values : x.v # NoneV}}, TRUE) >>
           [] OTHER ->
                TextSparkline({ReadAs(e, col_type) : e \in {x \in values : x.v # NoneV}}, bins)

\* The samples the sample query can return: the whole table when it has no
\* more rows than the sample size, else any rows of that number.
SampleRows(tbl, sample_size) ==
    IF Cardinality(tbl.rows) > sample_size
    THEN {S \in SUBSET tbl.rows : Cardinality(S) = sample_size}
    ELSE {tbl.rows}

\* _build_schema_sparklines for one column, given the sample.
_build_schema_sparklines(sample_rows, col, col_type, row_count) ==
    IF row_count <= 0 THEN << >>
    ELSE IF sample_rows = {} THEN << >>
    ELSE _compute_sparkline(ValuesByCol(sample_rows, col), col_type, SparklineBins)

\* One entry of the columns of a schema.
SchemaColumn(tbl, sample_rows, col_name, col_type) ==
    [name |-> col_name, type |-> map_duckdb_type(col_type),
     nullCount |-> GroupCount(tbl, col_name, NoneV),
     totalCount |-> Cardinality(tbl.rows),
     uniqueCount |-> Cardinality(DistinctValues(tbl, col_name)),
     sparkline |-> _build_schema_sparklines(sample_rows, col_name, map_duckdb_type(col_type),
                                            Cardinality(tbl.rows))]

\* DuckDBEngine.get_schema with the statistics and the sparkline of each
\* column; sample_rows is what the sample query returned.
SchemaReport(cat, registry, dataset_id, sample_rows) ==
    IF _get_table(registry, dataset_id).err # "" THEN _get_table(registry, dataset_id)
    ELSE Ok([columns |-> [k \in 1..Len(cat[registry[dataset_id]].cols) |->
                            SchemaColumn(cat[registry[dataset_id]], sample_rows,
                                         cat[registry[dataset_id]].cols[k][1],
                                         cat[registry[dataset_id]].cols[k][2])],
             rowCount |-> Cardinality(cat[registry[dataset_id]].rows)])

\* ------------------------------------------------------------------------
\* The profiler over one column
\* ------------------------------------------------------------------------
\* The dataset is a table of one column named value, of any of the types
\* of a column.  One request is made of it: the profile of the column, or
\* the schema.  probe keeps the request, the status and the outcome.

\* The cells of a drawn column.
MaxCells == 3

\* topValues holds the limit most frequent values.
TopValuesLimit == 10

ColValue == << "v", "a", "l", "u", "e" >>

LongValue ==
    << "T", "H", "I", "S", "_", "I", "S", "_", "A", "_",
       "V", "E", "R", "Y", "_", "L", "O", "N", "G", "_", "S", "T", "R", "I", "N", "G", "_",
       "V", "A", "L", "U", "E", "_", "F", "O", "R", "_", "O", "U", "T", "L", "I", "E", "R",
       "_", "C", "H", "E", "C", "K", "I", "N", "G", "_", "1", "2", "3", "4", "5", "6", "7",
       "8", "9" >>

\* The values a column of each type is drawn from, NULL among them.
ValuePool(duck_type) ==
    CASE duck_type = "BIGINT" -> << NoneV, IntV(0), IntV(19), IntV(20) >>
      [] duck_type = "DOUBLE" -> << NoneV, FloatV(5), FloatV(10), FloatV(25) >>
      [] duck_type = "DATE" ->
            << NoneV, DateV(<< "2", "0", "2", "4", "-", "0", "1", "-", "3", "1" >>),
       DateV(<< "2", "0", "2", "4", "-", "0", "2", "-", "0", "1" >>), DateV(<< "2", "0", "2",
       "4", "-", "0", "3", "-", "0", "5" >>) >>
      [] duck_type = "BOOLEAN" -> << NoneV, BoolV(FALSE), BoolV(TRUE) >>
      [] OTHER ->
            << NoneV, StrV(<< "N", "A" >>), StrV(<< "o", "k" >>), StrV(<< "n", "o", "n", "e" >>) >>

\* A longer column of each type, with more distinct values than a sparkline
\* has bins.  The one of texts starts with the values of
\* test_profile_string_includes_sentinel_and_outlier_metrics.
LongColumn(duck_type) ==
    CASE duck_type = "BIGINT" ->
            [k \in 1..13 |-> IF k <= 10 THEN IntV(k - 1) ELSE IF k <= 12 THEN IntV(20) ELSE NoneV]
      [] duck_type = "DOUBLE" ->
            [k \in 1..11 |-> IF k <= 10 THEN FloatV(5 * k) ELSE NoneV]
      [] duck_type = "DATE" ->
            [k \in 1..11 |->
                IF k <= 9 THEN DateV(<< "2", "0", "2", "4", "-", "0", "1", "-",
       "0" >> \o << Digits[k + 1] >>)
                ELSE IF k = 10 THEN DateV(<< "2", "0", "2", "4", "-", "0", "3", "-", "0",
       "1" >>) ELSE NoneV]
      [] duck_type = "BOOLEAN" ->
            << BoolV(TRUE), BoolV(FALSE), BoolV(TRUE), BoolV(FALSE), NoneV >>
      [] OTHER ->
            << StrV(<< "N", "A" >>), StrV(<< "n", "/", "a" >>), StrV(<< "N", "U", "L",
       "L" >>), StrV(<< "-" >>), StrV(<< " " >>), StrV(<< >>), StrV(<< "o", "k" >>),
               StrV(LongValue), StrV(<< "4", "2" >>), StrV(<< "a", "b", "_", "1" >>),
       StrV(<< "x" >>), StrV(<< "o", "k" >>) >>

ColumnTypes == {"BIGINT", "DOUBLE", "DATE", "BOOLEAN", "VARCHAR"}

\* The table of a column: CREATE TABLE AS SELECT gives the cells the rowids
\* 0..n-1.
ColumnTable(duck_type, cells) ==
    [cols |-> << << ColValue, duck_type >> >>,
     rows |-> {[rowid |-> k - 1, cells |-> [c \in {ColValue} |-> cells[k]]] :
                  k \in 1..Len(cells)}]

\* The columns drawn: up to MaxCells values of the pool, in the order of the
\* pool (no statistic depends on the order of the rows), and the first
\* cells of the longer column.
DrawnColumns(duck_type) ==
    UNION {{[k \in 1..n |-> ValuePool(duck_type)[f[k]]] :
               f \in {g \in [1..n -> 1..Len(ValuePool(duck_type))] :
                         \A k \in 1..(n - 1) : g[k] <= g[k + 1]}} : n \in 0..MaxCells}
        \cup {SubSeq(LongColumn(duck_type), 1, n) :
                 n \in (MaxCells + 1)..Len(LongColumn(duck_type))}

ProfileTables ==
    UNION {{ColumnTable(duck_type, cells) : cells \in DrawnColumns(duck_type)} :
              duck_type \in ColumnTypes}

\* After load_file: one dataset in the registry, no request made yet.
ProfileInit ==
    /\ datasets = [id \in {TheDataset} |-> TableName(id)]
    /\ \E tbl \in ProfileTables : catalog = [t \in {TableName(TheDataset)} |-> tbl]
    /\ req = << >>
    /\ pc = "start"
    /\ pages = << >>
    /\ probe = NoProbe
    /\ EngineIdle
    /\ AppIdle

\* What the top values query can return for a request: nothing when the
\* request fails before it or the column is not of texts.
TopValuesDrawn(cat, registry, dataset_id, column) ==
    IF dataset_id \notin DOMAIN registry THEN {{}}
    ELSE IF column \notin DOMAIN _get_column_meta(cat[registry[dataset_id]]) THEN {{}}
    ELSE IF _get_column_meta(cat[registry[dataset_id]])[column].app_type # "string" THEN {{}}
    ELSE _profile_top_values(cat[registry[dataset_id]], column, TopValuesLimit)

\* GET /api/datasets/{dataset_id}/profile/{column}
ProfileOne ==
    /\ probe = NoProbe
    /\ \E id \in IdPool, column \in {ColValue, ColX} :
        \E top_values \in TopValuesDrawn(catalog, datasets, id, column) :
            \E out \in {ProfileReport(catalog, datasets, id, column, top_values)} :
                probe' = ApiProbe("profile", id, column, Status(out), out)
    /\ UNCHANGED << datasets, catalog, req, pc, pages, engineVars, appVars >>

\* What the sample query can return for a request.
SamplesDrawn(cat, registry, dataset_id) ==
    IF dataset_id \notin DOMAIN registry THEN {{}}
    ELSE SampleRows(cat[registry[dataset_id]],
                    SetMin({SparklineSample, Cardinality(cat[registry[dataset_id]].rows)}))

\* GET /api/datasets/{dataset_id}/schema
SchemaOne ==
    /\ probe = NoProbe
    /\ \E id \in IdPool :
        \E sample_rows \in SamplesDrawn(catalog, datasets, id) :
            \E out \in {SchemaReport(catalog, datasets, id, sample_rows)} :
                probe' = ApiProbe("schema", id, << >>, SchemaStatus(out), out)
    /\ UNCHANGED << datasets, catalog, req, pc, pages, engineVars, appVars >>

ProfileNext == ProfileOne \/ SchemaOne

ProfileSpec == ProfileInit /\ [][ProfileNext]_vars

\* ------------------------------------------------------------------------
\* C21: the histogram of a numeric column counts every value
\* ------------------------------------------------------------------------

\* The request made was the profile of the column and was answered 200.
Profiled == probe.kind = "profile" /\ probe.status = 200

\* The report of that request.
TheProfile == probe.out.val

\* The request made was the profile of a numeric column.
NumericProfiled == Profiled /\ TheProfile.type \in {"integer", "float"}

\* The non-null cells of the column, by row.
TheValues == {row \in TheTable.rows : row.cells[ColValue] # NoneV}

RECURSIVE SumOfCounts(_)
SumOfCounts(entries) ==
    IF entries = << >> THEN 0 ELSE Head(entries).count + SumOfCounts(Tail(entries))

\* C21: for a numeric column with at least one non-null value, the counts
\* of the histogram entries of its profile sum to nonNullCount, which is the
\* number of its non-null values; columns whose values are all equal are
\* not excepted.
C21_HistogramCountsSumToNonNullCount ==
    (NumericProfiled /\ TheValues # {}) =>
        /\ TheProfile.nonNullCount = Cardinality(TheValues)
        /\ SumOfCounts(TheProfile.histogram) = TheProfile.nonNullCount

\* A numeric column of two equal values and nothing else has been profiled:
\* nonNullCount is 2 and the histogram is empty.
C21_Witness ==
    /\ NumericProfiled
    /\ Cardinality(TheValues) = 2
    /\ TheProfile.nonNullCount = 2
    /\ TheProfile.uniqueCount = 1
    /\ TheProfile.histogram = << >>

\* ------------------------------------------------------------------------
\* C22: the histogram of a numeric column has 20 equal-width bins
\* ------------------------------------------------------------------------

\* The least and the greatest value of the column, in tenths.
LeastValue == CHOOSE n \in {Tenths(row.cells[ColValue]) : row \in TheValues} :
                  \A row \in TheValues : n <= Tenths(row.cells[ColValue])

GreatestValue == CHOOSE n \in {Tenths(row.cells[ColValue]) : row \in TheValues} :
                     \A row \in TheValues : Tenths(row.cells[ColValue]) <= n

\* The bin of a value among 20 bins of equal width from the least to the
\* greatest value, the greatest value in the last one.
EqualWidthBin(n) ==
    IF LeastValue = GreatestValue THEN 0
    ELSE IF n = GreatestValue THEN 19
    ELSE (20 * (n - LeastValue)) \div (GreatestValue - LeastValue)

\* C22: the histogram has at most 20 entries, their bin indexes are
\* pairwise distinct and lie in 0..19, and every non-null value is counted
\* in exactly one entry, that of its bin, whose range from low to high
\* contains it (low and high are in two-hundredths, values in tenths).
C22_HistogramIsTwentyEqualWidthBins ==
    NumericProfiled =>
        /\ Len(TheProfile.histogram) <= 20
        /\ \A k \in 1..Len(TheProfile.histogram) : TheProfile.histogram[k].bin \in 0..19
        /\ \A j, k \in 1..Len(TheProfile.histogram) :
              j # k => TheProfile.histogram[j].bin # TheProfile.histogram[k].bin
        /\ \A row \in TheValues :
              \E k \in 1..Len(TheProfile.histogram) :
                  /\ TheProfile.histogram[k].bin = EqualWidthBin(Tenths(row.cells[ColValue]))
                  /\ TheProfile.histogram[k].low <= 20 * Tenths(row.cells[ColValue])
                  /\ 20 * Tenths(row.cells[ColValue]) <= TheProfile.histogram[k].high
                  /\ TheProfile.histogram[k].count =
                        Cardinality({other \in TheValues :
                            EqualWidthBin(Tenths(other.cells[ColValue]))
                                = TheProfile.histogram[k].bin})
                  /\ \A j \in 1..Len(TheProfile.histogram) :
                        TheProfile.histogram[j].bin = TheProfile.histogram[k].bin => j = k

\* The column 0, 19, 20 has been profiled: the histogram has two entries of
\* bin 19, one counting 19 and one counting 20.
C22_Witness ==
    /\ NumericProfiled
    /\ {row.cells[ColValue] : row \in TheValues} = {IntV(0), IntV(19), IntV(20)}
    /\ Len(TheProfile.histogram) = 3
    /\ TheProfile.histogram[2].bin = 19
    /\ TheProfile.histogram[3].bin = 19
    /\ TheProfile.histogram[2].count = 1
    /\ TheProfile.histogram[3].count = 1

\* ------------------------------------------------------------------------
\* C23: the dominant value
\* ------------------------------------------------------------------------

\* The number of cells of the column holding a value.
CellsHolding(v) == Cardinality({row \in TheValues : row.cells[ColValue] = v})

\* The values no other value of the column is more frequent than.
MostFrequent ==
    {row.cells[ColValue] : row \in {r \in TheValues :
        \A other \in TheValues :
            CellsHolding(other.cells[ColValue]) <= CellsHolding(r.cells[ColValue])}}

\* The dominant value is reported as null: the field is null, or absent.
DominantIsNull ==
    "dominantValue" \in DOMAIN TheProfile => TheProfile.dominantValue = NoneV

\* The dominant value is reported as this text, with this count.
DominantIs(text, count) ==
    /\ "dominantValue" \in DOMAIN TheProfile
    /\ TheProfile.dominantValue = StrV(text)
    /\ TheProfile.dominantValueCount = count

\* C23: the profile of a non-boolean column reports its single most
\* frequent non-null value with its count, and null when the two highest
\* counts are equal; the profile of a boolean column reports the side with
\* the larger count, and null when the counts are equal.  Null is neither a
\* value nor a placeholder text.
C23_DominantValue ==
    (Profiled /\ TheValues # {}) =>
        IF TheProfile.type = "boolean"
        THEN CASE CellsHolding(BoolV(TRUE)) > CellsHolding(BoolV(FALSE)) ->
                    DominantIs(TextTrue, CellsHolding(BoolV(TRUE)))
               [] CellsHolding(BoolV(TRUE)) < CellsHolding(BoolV(FALSE)) ->
                    DominantIs(TextFalse, CellsHolding(BoolV(FALSE)))
               [] OTHER -> DominantIsNull
        ELSE IF Cardinality(MostFrequent) = 1
             THEN \A v \in MostFrequent : DominantIs(PyStr(v), CellsHolding(v))
             ELSE DominantIsNull

\* A column of the two texts NA and ok, once each, has been profiled: the
\* dominant value reported is the text none.
C23_Witness ==
    /\ Profiled
    /\ TheProfile.type = "string"
    /\ {row.cells[ColValue] : row \in TheTable.rows} = {StrV(<< "N", "A" >>), StrV(<< "o", "k" >>)}
    /\ Cardinality(TheTable.rows) = 2
    /\ TheProfile.dominantValue = StrV(TextNone)
    /\ TheProfile.dominantValueCount = 1

\* ------------------------------------------------------------------------
\* C25: the sentinel and outlier metrics of a string profile
\* ------------------------------------------------------------------------

\* The missing-value sentinels of the test.
SentinelTexts == {<< "N", "A" >>, << "n", "/", "a" >>, << "N", "U", "L", "L" >>, << "-" >>}

\* C25: the profile of a string column includes sentinelCount, at least 4
\* for a column holding NA, n/a, NULL and -, a sentinelTokens list, and
\* stats.outlierLengthCount.
C25_StringProfileHasSentinelMetrics ==
    (Profiled /\ TheProfile.type = "string") =>
        /\ "sentinelCount" \in DOMAIN TheProfile
        /\ "sentinelTokens" \in DOMAIN TheProfile
        /\ "stats" \in DOMAIN TheProfile
        /\ "outlierLengthCount" \in DOMAIN TheProfile.stats
        /\ (\A s \in SentinelTexts : \E row \in TheValues : row.cells[ColValue].s = s)
              => TheProfile.sentinelCount >= 4

\* The column of the test (NA, n/a, NULL, -, a blank, the empty text, ok and
\* the long value) has been profiled: the report is of a string column of 8
\* values, with its stats, and has none of the three fields.
C25_Witness ==
    /\ Profiled
    /\ TheProfile.type = "string"
    /\ TheProfile.nonNullCount = 8
    /\ \A s \in SentinelTexts \cup {LongValue, << >>, << " " >>, << "o", "k" >>} :
          \E row \in TheValues : row.cells[ColValue].s = s
    /\ "stats" \in DOMAIN TheProfile
    /\ TheProfile.stats.blankWhitespaceCount = 2
    /\ "sentinelCount" \notin DOMAIN TheProfile
    /\ "sentinelTokens" \notin DOMAIN TheProfile
    /\ "outlierLengthCount" \notin DOMAIN TheProfile.stats

\* ------------------------------------------------------------------------
\* C24: the sparklines of a schema
\* ------------------------------------------------------------------------

\* The request made was the schema and was answered 200.
SchemaAnswered == probe.kind = "schema" /\ probe.status = 200

RECURSIVE SumOf(_)
SumOf(ns) == IF ns = << >> THEN 0 ELSE Head(ns) + SumOf(Tail(ns))

\* min(2000, rowCount)
SampleSizeOf(rowCount) == IF rowCount < 2000 THEN rowCount ELSE 2000

\* C24: the sparkline of every column of a schema response is a list of at
\* most 8 non-negative integers whose sum is at most min(2000, rowCount),
\* whatever the type of the column and its values.
C24_SparklineIsSmallAndBounded ==
    SchemaAnswered =>
        \A k \in 1..Len(probe.out.val.columns) :
            /\ Len(probe.out.val.columns[k].sparkline) <= 8
            /\ \A j \in 1..Len(probe.out.val.columns[k].sparkline) :
                  probe.out.val.columns[k].sparkline[j] \in Nat
            /\ SumOf(probe.out.val.columns[k].sparkline) <= SampleSizeOf(probe.out.val.rowCount)

\* The schema of a column of texts with more than 8 distinct values has
\* been answered: its sparkline has 8 counts, which leave values out.
C24_Witness ==
    /\ SchemaAnswered
    /\ probe.out.val.columns[1].type = "string"
    /\ probe.out.val.columns[1].uniqueCount > 8
    /\ Len(probe.out.val.columns[1].sparkline) = 8
    /\ SumOf(probe.out.val.columns[1].sparkline) < probe.out.val.rowCount
    /\ SumOf(probe.out.val.columns[1].sparkline) >= 8

\* ------------------------------------------------------------------------
\* code_runner.py: a code cell
\* ------------------------------------------------------------------------
\* A cell is kept as the list of its statements, a blank cell being the
\* empty list, and a statement as its text.  A frame has the one column a;
\* it is kept as the values of the column.  The objects a cell can reach
\* are the frame env["df"] refers to, the dict env["__builtins__"], and the
\* modules of the process: pandas as pd, and builtins as the __self__ of
\* every builtin function.  executionTime, read from the clock, is not
\* carried by the payload.

\* The calls made of execute_python_code.
MaxCalls == 2

\* The statements that are not expressions.
AssignName == "x = 1"

AssignBuiltinsKey == "__builtins__['k'] = 1"

AssignCell == "df.loc[0, 'a'] = 9"

AssignPdAttribute == "pd.leak = 1"

AssignBuiltinsAttribute == "print.__self__.leak = 1"

\* The expression statements.
ReadName == "x"

ReadBuiltinsKey == "k"

ReadFrame == "df"

ReadPdAttribute == "pd.leak"

ReadBuiltinsAttribute == "print.__self__.leak"

CallPrint == "print(1)"

\* isinstance(stmt, ast.Expr)
IsExpr(stmt) ==
    stmt \in {ReadName, ReadBuiltinsKey, ReadFrame, ReadPdAttribute, ReadBuiltinsAttribute,
              CallPrint}

\* env at the start of a call: no name bound by the cell, the builtins dict
\* as _safe_builtins() made it, df referring to the copy of the frame, pd
\* to the module of the process.
Env(df, mods) ==
    [names |-> {}, builtins_keys |-> {}, df |-> "copy",
     frames |-> [caller |-> df, copy |-> df],
     modules |-> mods, stdout |-> << >>, err |-> "", result |-> NoneV]

\* The value of an expression in env: of a name bound in env or a key of
\* its builtins dict, of an attribute set on a module, of df; a name or an
\* attribute that is not there raises.
Evaluated(env, stmt) ==
    CASE stmt = ReadName ->
            IF "x" \in env.names THEN [env EXCEPT !.result = IntV(1)]
            ELSE [env EXCEPT !.err = "NameError"]
      [] stmt = ReadBuiltinsKey ->
            IF "k" \in env.names \cup env.builtins_keys THEN [env EXCEPT !.result = IntV(1)]
            ELSE [env EXCEPT !.err = "NameError"]
      [] stmt = ReadFrame -> [env EXCEPT !.result = ListV(env.frames[env.df])]
      [] stmt = ReadPdAttribute ->
            IF "leak" \in env.modules.pd THEN [env EXCEPT !.result = IntV(1)]
            ELSE [env EXCEPT !.err = "AttributeError"]
      [] stmt = ReadBuiltinsAttribute ->
            IF "leak" \in env.modules.builtins THEN [env EXCEPT !.result = IntV(1)]
            ELSE [env EXCEPT !.err = "AttributeError"]
      [] OTHER -> [env EXCEPT !.stdout = @ \o << "1", "\n" >>, !.result = NoneV]

\* The effect of a statement of the body on env and on the objects it
\* refers to; nothing is executed after a statement that raised.
Executed(env, stmt) ==
    IF env.err # "" THEN env
    ELSE CASE stmt = AssignName -> [env EXCEPT !.names = @ \cup {"x"}]
           [] stmt = AssignBuiltinsKey -> [env EXCEPT !.builtins_keys = @ \cup {"k"}]
           [] stmt = AssignCell -> [env EXCEPT !.frames[env.df] = [@ EXCEPT ![1] = 9]]
           [] stmt = AssignPdAttribute -> [env EXCEPT !.modules.pd = @ \cup {"leak"}]
           [] stmt = AssignBuiltinsAttribute ->
                [env EXCEPT !.modules.builtins = @ \cup {"leak"}]
           [] OTHER -> [Evaluated(env, stmt) EXCEPT !.result = NoneV]

\* exec of the statements before the final expression
RECURSIVE ExecBody(_, _)
ExecBody(env, exec_body) ==
    IF exec_body = << >> THEN env
    ELSE ExecBody(Executed(env, Head(exec_body)), Tail(exec_body))

\* eval of the final expression, when the last statement is one
EvalFinal(env, body) ==
    IF env.err # "" THEN env
    ELSE IF IsExpr(body[Len(body)]) THEN Evaluated(env, body[Len(body)])
    ELSE env

\* stdout_buffer.getvalue().strip(), of lines of one character
StdoutText(stdout) == IF stdout = << >> THEN << >> ELSE SubSeq(stdout, 1, Len(stdout) - 1)

\* The payload of a frame: its rows, and textOutput when something was
\* printed.
FramePayload(values, stdout_text) ==
    [columns |-> << "a" >>,
     rows |-> [k \in 1..Len(values) |-> [a |-> values[k]]],
     rowCount |-> Len(values)]
        @@ (IF stdout_text # << >> THEN [textOutput |-> stdout_text] ELSE << >>)

\* The payload of any other result: what was printed, then str(result)
\* when the result is not None.
TextPayload(result, stdout_text) ==
    [columns |-> << >>, rows |-> << >>, rowCount |-> 0,
     textOutput |->
        IF result = NoneV THEN stdout_text
        ELSE IF stdout_text # << >> THEN stdout_text \o << "\n" >> \o PyStr(result)
        ELSE PyStr(result)]

\* What a call leaves: its payload or the exception it raised, the modules
\* of the process and the caller's frame.
CallOutcome(env) ==
    [out |-> IF env.err # "" THEN Raise(env.err)
             ELSE IF env.result.t = "list"
             THEN Ok(FramePayload(env.result.l, StdoutText(env.stdout)))
             ELSE Ok(TextPayload(env.result, StdoutText(env.stdout))),
     modules |-> env.modules,
     caller |-> env.frames.caller]

\* execute_python_code(code, df) in a process whose modules are mods
execute_python_code(code, df, mods) ==
    IF code = << >>
    THEN [out |-> RaiseMsg("ValueError", "Python code is empty", << >>),
          modules |-> mods, caller |-> df]
    ELSE CallOutcome(EvalFinal(ExecBody(Env(df, mods),
                                      IF IsExpr(code[Len(code)])
                                      THEN SubSeq(code, 1, Len(code) - 1) ELSE code),
                             code))

\* ------------------------------------------------------------------------
\* Code cells run one after another
\* ------------------------------------------------------------------------
\* One process runs up to MaxCalls cells on the frame of its caller.  probe
\* keeps the last call: the code, the frame passed and what was returned.

Statements ==
    {AssignName, AssignBuiltinsKey, AssignCell, AssignPdAttribute, AssignBuiltinsAttribute,
     ReadName, ReadBuiltinsKey, ReadFrame, ReadPdAttribute, ReadBuiltinsAttribute, CallPrint}

\* The cells: blank, of one statement, of two.
CodeCells == {<< >>} \cup {<< s >> : s \in Statements} \cup {<< s, t >> : s, t \in Statements}

Frames == {FrameOfTwo, << 9, 2 >>}

CodeInit ==
    /\ datasets = << >>
    /\ catalog = << >>
    /\ EngineIdle
    /\ IMPORT_SESSIONS = << >>
    /\ DATA_DIR = << >>
    /\ uuids = 0
    /\ modules = FreshModules
    /\ frame \in Frames
    /\ req = << >>
    /\ pc = "start"
    /\ pages = << >>
    /\ probe = NoProbe

\* execute_python_code(code, frame) by the caller
RunCell ==
    /\ ops < MaxCalls
    /\ \E code \in CodeCells :
        \E done \in {execute_python_code(code, frame, modules)} :
            /\ probe' = [kind |-> "cell", code |-> code, df |-> frame, out |-> done.out]
            /\ modules' = done.modules
            /\ frame' = done.caller
    /\ ops' = ops + 1
    /\ UNCHANGED << datasets, catalog, _query_lock, view, threads, firstPage, req, pc, pages,
                    IMPORT_SESSIONS, DATA_DIR, uuids >>

CodeNext == RunCell

CodeSpec == CodeInit /\ [][CodeNext]_vars

\* ------------------------------------------------------------------------
\* C26: code cells do not persist state
\* ------------------------------------------------------------------------

\* The step is a call of execute_python_code.
CellStep == ops' = ops + 1 /\ probe'.kind = "cell"

\* C26: what a call of execute_python_code returns depends on its code and
\* frame only: it is what the same call returns in a process where no cell
\* has run, whatever earlier cells bound, mutated or set on df, pd or the
\* builtins; and the caller's frame is after the call what it was before.
C26_CellsDoNotPersistState ==
    [][CellStep =>
          /\ probe'.out = execute_python_code(probe'.code, probe'.df, FreshModules).out
          /\ frame' = frame]_vars

\* The cell pd.leak has returned 1: an earlier cell had set the attribute
\* on the module.
C26_Witness ==
    /\ probe.kind = "cell"
    /\ probe.code = << ReadPdAttribute >>
    /\ probe.out.err = ""
    /\ probe.out.val.textOutput = << "1" >>
    /\ "leak" \in modules.pd

====
